---- MODULE Spec2Model ----
(***************************************************************************)
(* LEX-7 / BARK Protocol v3.1: directive codec and signatures              *)
(* (shared/communication), the node handlers (lex-mon and the agents),     *)
(* the Glass Monolith kernel (glass-monolith/src-tauri) and the Mamba-SSM  *)
(* state manager (shared/state).                                           *)
(*                                                                         *)
(* Strings are TLA+ strings; Option<T> is a sequence of length 0 (None)    *)
(* or 1 (Some).  A Result is a record [ok, val] (Ok(val)) or [ok, err].    *)
(***************************************************************************)
EXTENDS Integers, Sequences, FiniteSets, TLC

VARIABLES
    dir,            \* the BarkDirective being built by a caller: Option
    orig,           \* the directive as it was when sign() ran: Option
    signKey,        \* the SigningKey sign() was given
    mutations,      \* field assignments made since sign()
    vres,           \* last verify_signature call: Option of [d, key, r]
    nextId,         \* Uuid::new_v4 values handed out so far
    inbox,          \* the directive a node has parsed from stdin: Option
    out,            \* outcome of the handler run on it: Option
    activeDirectives, \* ACTIVE_DIRECTIVES of lex-mon
    kernelConfig,   \* the managed KernelConfig of the Glass Monolith
    kernelOut,      \* outcomes of the execute_vector calls so far
    mgr,            \* the StateManager instances: mgr[m].ledger
    uuids,          \* uuids[m]: Uuid::new_v4 values manager m has drawn
    now,            \* the latest reading of Utc::now()
    snap,           \* the snapshot string last produced: Option
    ret,            \* what the last StateManager call returned: Option
    stateLock,      \* the task holding the write guard of a node's state
    taskPc,         \* taskPc[t]: where task t is in process_state_update
    taskLocal,      \* taskLocal[t]: what update_state has read: Option
    metricsLock,    \* holders of the RwLock of a node's metrics
    protocolLock,   \* holders of the RwLock of a node's BARKProtocol
    kinPc,          \* kinPc[t]: where task t of the lex-kin node is
    kinLocal,       \* kinLocal[t]: the directive or metrics t has in hand
    kinMetrics,     \* the KinshipMetrics behind metricsLock, in hundredths
    kinState,       \* the metrics last written into the node's state
    kinOut,         \* what the last process_kinship_directive did: Option
    kinHandled      \* directives the main task has taken up so far

barkVars == <<dir, orig, signKey, mutations, vres, nextId>>
nodeVars == <<inbox, out, activeDirectives>>
kernelVars == <<kernelConfig, kernelOut>>
stateVars == <<mgr, uuids, now, snap, ret>>
kinVars == <<metricsLock, protocolLock, kinPc, kinLocal, kinMetrics,
             kinState, kinOut, kinHandled>>
taskVars == <<stateLock, taskPc, taskLocal, kinVars>>
vars == <<barkVars, nodeVars, kernelVars, stateVars, taskVars>>

None == <<>>
Some(v) == <<v>>
IsSome(o) == Len(o) = 1
Get(o) == o[1]

Ok(v) == [ok |-> TRUE, val |-> v, err |-> ""]
Err(e) == [ok |-> FALSE, val |-> FALSE, err |-> e]

----------------------------------------------------------------------------
(* Bounds of the model *)

MaxDirectives == 2      \* request ids handed out by Uuid::new_v4
MaxMutations == 2       \* field assignments after sign()
TicksPerSec == 2        \* sub-second resolution of DateTime<Utc>
MaxTick == 2            \* latest clock reading

----------------------------------------------------------------------------
(* shared/communication: the closed enumerations *)

TargetNode ==
    <<"LexVit", "LexWth", "LexMon", "LexEnt", "LexKno", "LexCrt", "LexOrd",
      "LexKin", "LexGrw", "LexSan", "LexLei", "LexOut", "LexLeg">>

DirectiveKind ==
    <<"ANALYZE", "GENERATE", "VERIFY", "EXECUTE_PLAN", "VALIDATE_OUTPUT">>

\* `x as u8` of a fieldless enum: the zero-based position of the variant
AsU8(enum, v) == (CHOOSE i \in 1..Len(enum) : enum[i] = v) - 1

----------------------------------------------------------------------------
(* Text helpers *)

Digits == "0123456789"
HexLower == "0123456789abcdef"
HexUpper == "0123456789ABCDEF"
UpperCase == "ABCDEFGHIJKLMNOPQRSTUVWXYZ"
LowerCase == "abcdefghijklmnopqrstuvwxyz"
CharTable == "0123456789abcdefghijklmnopqrstuvwxyzABCDEFGHIJKLMNOPQRSTUVWXYZ\"{}:-_#/ "

Char(s, i) == SubSeq(s, i, i)
Chars(table) == {Char(table, i) : i \in 1..Len(table)}
\* position of each character in a table (0: not in the table)
Position(table) ==
    [c \in Chars(table) |-> CHOOSE i \in 1..Len(table) : Char(table, i) = c]
UpperPos == Position(UpperCase)
HexLowerPos == Position(HexLower)
HexUpperPos == Position(HexUpper)
CharCode == Position(CharTable)

\* Display of an unsigned integer (format!("{}", n))
RECURSIVE Dec(_)
Dec(n) == IF n < 10 THEN Char(Digits, n + 1)
          ELSE Dec(n \div 10) \o Char(Digits, (n % 10) + 1)

\* str::to_lowercase
RECURSIVE ToLower(_)
ToLower(s) ==
    IF Len(s) = 0 THEN ""
    ELSE LET c == Char(s, 1)
             u == IF c \in DOMAIN UpperPos THEN UpperPos[c] ELSE 0
         IN (IF u > 0 THEN Char(LowerCase, u) ELSE c)
            \o ToLower(SubSeq(s, 2, Len(s)))

\* str::starts_with in the place of str::contains
StartsWith(hay, needle) ==
    /\ Len(needle) <= Len(hay)
    /\ SubSeq(hay, 1, Len(needle)) = needle

\* str::contains
Contains(hay, needle) ==
    \E i \in 1..(Len(hay) - Len(needle) + 1) :
        SubSeq(hay, i, i + Len(needle) - 1) = needle

\* the bytes of a string (a fixed injective code per character)
StrBytes(s) == [i \in 1..Len(s) |-> CharCode[Char(s, i)]]

\* hex::encode, written with "{:x}" per byte instead of "{:02x}"
RECURSIVE HexEncodeNoPad(_)
HexEncodeNoPad(bytes) ==
    IF Len(bytes) = 0 THEN ""
    ELSE (IF bytes[1] < 16 THEN Char(HexLower, bytes[1] + 1)
          ELSE Char(HexLower, (bytes[1] \div 16) + 1)
               \o Char(HexLower, (bytes[1] % 16) + 1))
         \o HexEncodeNoPad(Tail(bytes))

\* hex::encode: two lower-case hex digits per byte
RECURSIVE HexEncode(_)
HexEncode(bytes) ==
    IF Len(bytes) = 0 THEN ""
    ELSE Char(HexLower, (bytes[1] \div 16) + 1)
         \o Char(HexLower, (bytes[1] % 16) + 1)
         \o HexEncode(Tail(bytes))

HexVal(c) ==
    IF c \in DOMAIN HexLowerPos THEN HexLowerPos[c] - 1
    ELSE IF c \in DOMAIN HexUpperPos THEN HexUpperPos[c] - 1
    ELSE -1

RECURSIVE HexDecodeBytes(_)
HexDecodeBytes(s) ==
    IF Len(s) = 0 THEN <<>>
    ELSE <<HexVal(Char(s, 1)) * 16 + HexVal(Char(s, 2))>>
         \o HexDecodeBytes(SubSeq(s, 3, Len(s)))

\* hex::decode: Err on an odd length or on a character that is no hex digit
HexDecode(s) ==
    IF Len(s) % 2 = 1 \/ \E i \in 1..Len(s) : HexVal(Char(s, i)) < 0
    THEN Err("InvalidHex")
    ELSE Ok(HexDecodeBytes(s))

----------------------------------------------------------------------------
(* serde_json::Value and its Display (compact JSON) *)

JNull == [t |-> "null", k |-> "", s |-> "", n |-> 0]
JNum(n) == [t |-> "num", k |-> "", s |-> "", n |-> n]
JStr(s) == [t |-> "str", k |-> "", s |-> s, n |-> 0]
JObj(k, s) == [t |-> "obj", k |-> k, s |-> s, n |-> 0]

JsonToString(p) ==
    CASE p.t = "null" -> "null"
      [] p.t = "num" -> Dec(p.n)
      [] p.t = "str" -> "\"" \o p.s \o "\""
      [] p.t = "obj" -> "{\"" \o p.k \o "\":\"" \o p.s \o "\"}"

----------------------------------------------------------------------------
(* BarkDirective *)

\* Display of a Uuid: 36 characters, always; a fixed-width token here
UuidToString(id) == "#" \o Dec(id) \o "#"

\* DateTime::timestamp(): whole seconds since the epoch
TimestampSecs(t) == t \div TicksPerSec

canonical_message(d) ==
    UuidToString(d.request_id)
    \o d.caller_sigil
    \o Dec(AsU8(TargetNode, d.target_agent))
    \o Dec(AsU8(DirectiveKind, d.kind))
    \o JsonToString(d.payload)
    \o (IF IsSome(d.governance_vector) THEN Get(d.governance_vector) ELSE "null")
    \o Dec(TimestampSecs(d.timestamp))
    \o UuidToString(d.request_id)

\* Ed25519 as an ideal deterministic scheme: the signature of msg under key
\* k is a byte string that no other (key, message) pair produces
Ed25519Sign(k, msg) == <<k>> \o StrBytes(msg)
Ed25519Verify(k, msg, sigBytes) == sigBytes = Ed25519Sign(k, msg)

\* a constructor that addresses every directive to the coordinator
BarkDirective_new_to_council(id, t, caller_sigil, target_agent, kind, payload) ==
    [request_id |-> id,
     caller_sigil |-> caller_sigil,
     target_agent |-> "LexMon",
     kind |-> kind,
     payload |-> payload,
     governance_vector |-> None,
     timestamp |-> t,
     signature |-> None]

BarkDirective_new(id, t, caller_sigil, target_agent, kind, payload) ==
    [request_id |-> id,
     caller_sigil |-> caller_sigil,
     target_agent |-> target_agent,
     kind |-> kind,
     payload |-> payload,
     governance_vector |-> None,
     timestamp |-> t,
     signature |-> None]

sign(d, k) ==
    [d EXCEPT !.signature = Some(HexEncode(Ed25519Sign(k, canonical_message(d))))]

new_signed(id, t, caller_sigil, target_agent, kind, payload, k) ==
    sign(BarkDirective_new(id, t, caller_sigil, target_agent, kind, payload), k)

\* Ok(false) without a signature, Err when hex::decode fails, otherwise
\* whatever the Ed25519 verifier returns: Ok on a match, Err on a mismatch
verify_signature(d, k) ==
    IF IsSome(d.signature)
    THEN LET bytes == HexDecode(Get(d.signature))
         IN IF ~bytes.ok THEN Err("SignatureNotCanonical")
            ELSE IF Ed25519Verify(k, canonical_message(d), bytes.val)
                 THEN Ok(TRUE)
                 ELSE Err("SignatureError")
    ELSE Ok(FALSE)

----------------------------------------------------------------------------
(* Callers of the protocol library: build, sign, edit and verify directives *)

Keys == {1, 2}
Callers == {"a", "a1"}
BarkTargets == {"LexMon", "LexLeg"}
BarkKinds == {"ANALYZE", "EXECUTE_PLAN"}
Payloads == {JNum(7), JStr("x")}
Governance == {None, Some("null")}
Ticks == 0..MaxTick
\* signature strings a peer can put on the wire: not hex, hex of no signature
WireSignatures == {None, Some("zz"), Some("0a")}

BarkInit ==
    /\ dir = None
    /\ orig = None
    /\ signKey = 0
    /\ mutations = 0
    /\ vres = None
    /\ nextId = 0

\* BarkDirective::new
New(c, tg, k, p, t) ==
    /\ dir = None
    /\ nextId < MaxDirectives
    /\ nextId' = nextId + 1
    /\ dir' = Some(BarkDirective_new(nextId + 1, t, c, tg, k, p))
    /\ orig' = None
    /\ signKey' = 0
    /\ mutations' = 0
    /\ vres' = None
    /\ UNCHANGED <<nodeVars, kernelVars, stateVars, taskVars>>

\* BarkDirective::new_signed
NewSigned(c, tg, k, p, t, key) ==
    /\ dir = None
    /\ nextId < MaxDirectives
    /\ nextId' = nextId + 1
    /\ dir' = Some(new_signed(nextId + 1, t, c, tg, k, p, key))
    /\ orig' = dir'
    /\ signKey' = key
    /\ mutations' = 0
    /\ vres' = None
    /\ UNCHANGED <<nodeVars, kernelVars, stateVars, taskVars>>

\* BarkDirective::sign on the directive at hand
Sign(key) ==
    /\ IsSome(dir)
    /\ Get(dir).signature = None
    /\ dir' = Some(sign(Get(dir), key))
    /\ orig' = dir'
    /\ signKey' = key
    /\ vres' = None
    /\ UNCHANGED <<mutations, nextId>>
    /\ UNCHANGED <<nodeVars, kernelVars, stateVars, taskVars>>

FieldEdits(d) ==
    {[d EXCEPT !.caller_sigil = c] : c \in Callers}
    \cup {[d EXCEPT !.target_agent = tg] : tg \in BarkTargets}
    \cup {[d EXCEPT !.kind = k] : k \in BarkKinds}
    \cup {[d EXCEPT !.payload = p] : p \in Payloads}
    \cup {[d EXCEPT !.governance_vector = g] : g \in Governance}
    \cup {[d EXCEPT !.timestamp = t] : t \in Ticks}
    \cup {[d EXCEPT !.request_id = id] : id \in 1..MaxDirectives}
    \cup {[d EXCEPT !.signature = sg] : sg \in WireSignatures}

\* assignment to one public field of the directive (or the same change made
\* to its serialized form in transit)
SetField ==
    /\ IsSome(dir)
    /\ IsSome(orig)
    /\ mutations < MaxMutations
    /\ \E d2 \in FieldEdits(Get(dir)) :
        /\ d2 # Get(dir)
        /\ dir' = Some(d2)
    /\ mutations' = mutations + 1
    /\ vres' = None
    /\ UNCHANGED <<orig, signKey, nextId>>
    /\ UNCHANGED <<nodeVars, kernelVars, stateVars, taskVars>>

\* the caller fills in governance_vector before signing
SetGovernance(g) ==
    /\ IsSome(dir)
    /\ orig = None
    /\ Get(dir).governance_vector = None
    /\ g # None
    /\ dir' = Some([Get(dir) EXCEPT !.governance_vector = g])
    /\ vres' = None
    /\ UNCHANGED <<orig, signKey, mutations, nextId>>
    /\ UNCHANGED <<nodeVars, kernelVars, stateVars, taskVars>>

\* BarkDirective::verify_signature
Verify(key) ==
    /\ IsSome(dir)
    /\ vres = None
    /\ vres' = Some([d |-> Get(dir), key |-> key,
                     r |-> verify_signature(Get(dir), key)])
    /\ UNCHANGED <<dir, orig, signKey, mutations, nextId>>
    /\ UNCHANGED <<nodeVars, kernelVars, stateVars, taskVars>>

\* the directive goes out of scope
Drop ==
    /\ IsSome(dir)
    /\ dir' = None
    /\ orig' = None
    /\ signKey' = 0
    /\ mutations' = 0
    /\ vres' = None
    /\ UNCHANGED nextId
    /\ UNCHANGED <<nodeVars, kernelVars, stateVars, taskVars>>

BarkNext ==
    \/ \E c \in Callers, tg \in BarkTargets, k \in BarkKinds, p \in Payloads,
          t \in Ticks : New(c, tg, k, p, t)
    \/ \E c \in Callers, tg \in BarkTargets, k \in BarkKinds, p \in Payloads,
          t \in Ticks, key \in Keys : NewSigned(c, tg, k, p, t, key)
    \/ \E key \in Keys : Sign(key)
    \/ SetField
    \/ \E g \in Governance : SetGovernance(g)
    \/ \E key \in Keys : Verify(key)
    \/ Drop

----------------------------------------------------------------------------
(* glass-monolith/src-tauri: the kernel entry point *)

MaxCalls == 4           \* execute_vector calls in one run

Commands == {"", "status", "srp://x"}

\* #[derive(Default)] on a struct with one bool field
KernelConfig_default == [enforce_zero_entropy |-> FALSE]
\* the value main() hands to tauri's manage()
KernelConfig_main == [enforce_zero_entropy |-> TRUE]

parse_intent(command) ==
    [id |-> "directive-local",
     command |-> command,
     target_nodes |-> <<"LEX-MON", "LEX-VIT", "LEX-WTH">>,
     signature |-> "srp://local/mock-signature"]

kernel_verify_signature(signature) ==
    signature # "" /\ Contains(signature, "srp://")

run_mamba(directive) ==
    Ok([state_delta |-> directive.id \o " resolved", proof_hash |-> "0x928cafe"])

\* What one execute_vector call does: `verified` is "skipped" when the &&
\* short-circuits on the flag, else the verdict of verify_signature
execute_vector(command, state) ==
    LET directive == parse_intent(command)
        verified == IF ~state.enforce_zero_entropy THEN "skipped"
                    ELSE IF kernel_verify_signature(directive.signature)
                         THEN "ok" ELSE "failed"
    IN IF verified = "failed"
       THEN [command |-> command, verified |-> verified, ran_mamba |-> FALSE,
             result |-> "ERROR: UNVERIFIED DIRECTIVE. ENTROPY DETECTED."]
       ELSE [command |-> command, verified |-> verified, ran_mamba |-> TRUE,
             result |-> "STATE UPDATED: " \o run_mamba(directive).val.state_delta
                        \o ". PROOF: " \o run_mamba(directive).val.proof_hash]

KernelInit ==
    /\ kernelConfig \in {KernelConfig_default, KernelConfig_main}
    /\ kernelOut = <<>>

ExecuteVector(command) ==
    /\ Len(kernelOut) < MaxCalls
    /\ kernelOut' = Append(kernelOut, execute_vector(command, kernelConfig))
    /\ UNCHANGED kernelConfig
    /\ UNCHANGED <<barkVars, nodeVars, stateVars, taskVars>>

KernelNext == \E command \in Commands : ExecuteVector(command)

----------------------------------------------------------------------------
(* BarkResponse *)

BarkResponse_success(request_id, source_node, payload) ==
    [request_id |-> request_id, source_node |-> source_node,
     status |-> "Success", payload |-> payload,
     signature |-> "[signed_success]"]

BarkResponse_failure(request_id, source_node, error_message) ==
    [request_id |-> request_id, source_node |-> source_node,
     status |-> "Failure", payload |-> [error |-> error_message],
     signature |-> "[signed_failure]"]

----------------------------------------------------------------------------
(* nodes/lex-mon: the council *)

\* The key the handlers verify against.  The handlers call
\* verify_signature() without naming one; the caller's registered key is
\* the only one that makes the call meaningful.
TrustedKey == 1

\* the twelve keyword tests, in the order of the code
keyword_targets(payload) ==
    LET has(w) == Contains(payload, w)
    IN      (IF has("runway") \/ has("financial") \/ has("wealth")
             THEN <<"LexWth">> ELSE <<>>)
            \o (IF has("bioload") \/ has("vital") \/ has("health")
                   \/ has("stress") \/ has("sleep")
                THEN <<"LexVit">> ELSE <<>>)
            \o (IF has("pivot") \/ has("strategy") \/ has("enterprise")
                THEN <<"LexEnt">> ELSE <<>>)
            \o (IF has("knowledge") \/ has("information") \/ has("data")
                THEN <<"LexKno">> ELSE <<>>)
            \o (IF has("create") \/ has("generate") \/ has("output")
                THEN <<"LexCrt">> ELSE <<>>)
            \o (IF has("plan") \/ has("schedule") \/ has("logistics")
                THEN <<"LexOrd">> ELSE <<>>)
            \o (IF has("social") \/ has("relationship") \/ has("kinship")
                THEN <<"LexKin">> ELSE <<>>)
            \o (IF has("learn") \/ has("growth") \/ has("capability")
                THEN <<"LexGrw">> ELSE <<>>)
            \o (IF has("environment") \/ has("sanctuary") \/ has("infrastructure")
                THEN <<"LexSan">> ELSE <<>>)
            \o (IF has("leisure") \/ has("recovery") \/ has("restoration")
                THEN <<"LexLei">> ELSE <<>>)
            \o (IF has("communication") \/ has("influence") \/ has("outreach")
                THEN <<"LexOut">> ELSE <<>>)
            \o (IF has("legacy") \/ has("history") \/ has("meta")
                THEN <<"LexLeg">> ELSE <<>>)

\* the router without its fallback
determine_analysis_targets_no_default(payload) == keyword_targets(payload)

\* an empty list falls back to the knowledge node
determine_analysis_targets(payload) ==
    LET targets == keyword_targets(payload)
    IN IF targets = <<>> THEN <<"LexKno">> ELSE targets

\* a collection that also hands on what arrived for request 1, whatever
\* directive is outstanding
collect_node_responses_unfiltered(directive_id, expected_count) ==
    <<BarkResponse_success(1, "LexWth", [runway_months |-> 62]),
      BarkResponse_success(directive_id, "LexVit", [bioload_percentage |-> 720])>>

\* f64 factors are kept in tenths (6.2 months = 62, 72.0 % = 720)
collect_node_responses(directive_id, expected_count) ==
    <<BarkResponse_success(directive_id, "LexWth", [runway_months |-> 62]),
      BarkResponse_success(directive_id, "LexVit", [bioload_percentage |-> 720])>>

\* a decision rule whose missing factors default to the best case
generate_council_decision_lenient(key_insights) ==
    LET financial_runway ==
            IF "financial_runway" \in DOMAIN key_insights
            THEN key_insights["financial_runway"] ELSE 1000
        biological_load ==
            IF "biological_load" \in DOMAIN key_insights
            THEN key_insights["biological_load"] ELSE 0
        decision ==
            IF financial_runway >= 60 /\ biological_load <= 750 THEN "GO"
            ELSE IF financial_runway >= 30 /\ biological_load <= 850
                 THEN "CAUTION" ELSE "HOLD"
    IN [verdict |-> decision, action_required |-> decision = "GO"]

generate_council_decision(key_insights) ==
    LET financial_runway ==
            IF "financial_runway" \in DOMAIN key_insights
            THEN key_insights["financial_runway"] ELSE 0
        biological_load ==
            IF "biological_load" \in DOMAIN key_insights
            THEN key_insights["biological_load"] ELSE 1000
        decision ==
            IF financial_runway >= 60 /\ biological_load <= 750 THEN "GO"
            ELSE IF financial_runway >= 30 /\ biological_load <= 850
                 THEN "CAUTION" ELSE "HOLD"
    IN [verdict |-> decision, action_required |-> decision = "GO"]

\* the fold of synthesize_analysis_response over responses[1..n]
RECURSIVE KeyInsights(_, _)
KeyInsights(responses, n) ==
    IF n = 0 THEN <<>>
    ELSE LET acc == KeyInsights(responses, n - 1)
             r == responses[n]
         IN IF r.status = "Success" /\ r.source_node = "LexWth"
               /\ "runway_months" \in DOMAIN r.payload
            THEN [k \in DOMAIN acc \cup {"financial_runway"} |->
                    IF k = "financial_runway" THEN r.payload.runway_months
                    ELSE acc[k]]
            ELSE IF r.status = "Success" /\ r.source_node = "LexVit"
                    /\ "bioload_percentage" \in DOMAIN r.payload
            THEN [k \in DOMAIN acc \cup {"biological_load"} |->
                    IF k = "biological_load" THEN r.payload.bioload_percentage
                    ELSE acc[k]]
            ELSE acc

synthesize_analysis_response(directive_id, responses) ==
    LET key_insights == KeyInsights(responses, Len(responses))
    IN BarkResponse_success(directive_id, "LexMon",
          [response_count |-> Len(responses),
           key_insights |-> key_insights,
           risk_assessment |-> "LOW",
           decision |-> generate_council_decision(key_insights),
           council_verdict |-> "APPROVED"])

synthesize_execution_response(directive_id, responses) ==
    BarkResponse_success(directive_id, "LexMon",
        [execution_status |-> "INITIATED", coordination_complete |-> TRUE])

synthesize_validation_response(directive_id, responses) ==
    BarkResponse_success(directive_id, "LexMon",
        [validation_status |-> "VERIFIED", cross_check_complete |-> TRUE])

synthesize_general_response(directive_id, responses) ==
    BarkResponse_success(directive_id, "LexMon",
        [routing_complete |-> TRUE, responses_processed |-> Len(responses)])

\* the target list each route_* function sends the directive to
route_targets(d) ==
    CASE d.kind = "ANALYZE" ->
            determine_analysis_targets(ToLower(JsonToString(d.payload)))
      [] d.kind = "EXECUTE_PLAN" -> <<"LexOrd">>
      [] d.kind = "VALIDATE_OUTPUT" -> <<"LexKno", "LexCrt">>
      [] OTHER -> <<d.target_agent>>

\* `if let Err(e) = directive.verify_signature()`: only an Err stops the
\* handler; Ok(true) and Ok(false) both fall through to the match on kind
process_council_directive(d) ==
    LET r == verify_signature(d, TrustedKey)
        target_nodes == route_targets(d)
        responses == collect_node_responses(d.request_id, Len(target_nodes))
    IN IF ~r.ok
       THEN [node |-> "LexMon", d |-> d, verified |-> r, dispatched |-> <<>>,
             registered |-> FALSE, collected |-> <<>>, stage |-> "done",
             response |-> BarkResponse_failure(d.request_id, "LexMon",
                             "Council signature verification failed")]
       ELSE IF d.kind = "ANALYZE" /\ target_nodes = <<>>
       THEN [node |-> "LexMon", d |-> d, verified |-> r, dispatched |-> <<>>,
             registered |-> FALSE, collected |-> <<>>, stage |-> "done",
             response |-> BarkResponse_failure(d.request_id, "LexMon",
                "No appropriate analysis nodes identified for directive")]
       ELSE [node |-> "LexMon", d |-> d, verified |-> r,
             dispatched |-> target_nodes,
             registered |-> d.kind = "ANALYZE",
             collected |-> responses, stage |-> "done",
             response |->
                CASE d.kind = "ANALYZE" ->
                        synthesize_analysis_response(d.request_id, responses)
                  [] d.kind = "EXECUTE_PLAN" ->
                        synthesize_execution_response(d.request_id, responses)
                  [] d.kind = "VALIDATE_OUTPUT" ->
                        synthesize_validation_response(d.request_id, responses)
                  [] OTHER ->
                        synthesize_general_response(d.request_id, responses)]

\* the entry route_analysis_directive inserts into ACTIVE_DIRECTIVES
\* (started_at is written there and read nowhere; it is kept at 0)
DirectiveState(d, expected) ==
    [directive |-> d, responses |-> <<>>, expected_responses |-> expected,
     started_at |-> 0]

----------------------------------------------------------------------------
(* the agents: process_directive of lex-vit, lex-wth, lex-kno, lex-ent,   *)
(* lex-crt and lex-ord                                                     *)

Agents == {"LexVit", "LexWth", "LexKno", "LexEnt", "LexCrt", "LexOrd"}

\* the kinds each agent's match has an arm for
HandledKinds(node) ==
    CASE node = "LexVit" -> {"ANALYZE", "VERIFY", "GENERATE"}
      [] node = "LexWth" -> {"ANALYZE", "VERIFY", "GENERATE"}
      [] node = "LexKno" -> {"ANALYZE", "GENERATE", "VERIFY"}
      [] node = "LexEnt" -> {"ANALYZE", "EXECUTE_PLAN", "GENERATE"}
      [] node = "LexCrt" -> {"GENERATE", "ANALYZE"}
      [] node = "LexOrd" -> {"EXECUTE_PLAN", "ANALYZE", "GENERATE"}

process_directive(node, d) ==
    LET r == verify_signature(d, TrustedKey)
    IN IF ~r.ok
       THEN [node |-> node, d |-> d, verified |-> r, dispatched |-> <<>>,
             registered |-> FALSE, collected |-> <<>>, stage |-> "done",
             response |-> BarkResponse_failure(d.request_id, node,
                             "Signature verification failed")]
       ELSE IF d.kind \in HandledKinds(node)
       THEN [node |-> node, d |-> d, verified |-> r, dispatched |-> <<>>,
             registered |-> FALSE, collected |-> <<>>, stage |-> "done",
             response |-> BarkResponse_success(d.request_id, node,
                             [handled |-> d.kind])]
       ELSE [node |-> node, d |-> d, verified |-> r, dispatched |-> <<>>,
             registered |-> FALSE, collected |-> <<>>, stage |-> "done",
             response |-> BarkResponse_failure(d.request_id, node,
                             "Unsupported directive kind")]

----------------------------------------------------------------------------
(* The nodes' main loops: read a line from stdin, parse it, process it *)

WireIds == {1, 2}
NodeTargets == {"LexVit", "LexKno"}
NodePayloads == {JStr("x"), JObj("q", "Runway Health")}

UnsignedWire ==
    {BarkDirective_new(id, 0, "a", tg, k, p) :
        id \in WireIds, tg \in NodeTargets,
        k \in {DirectiveKind[i] : i \in 1..Len(DirectiveKind)},
        p \in NodePayloads}

\* what can arrive: unsigned, not hex, signed by the trusted key, signed by
\* another key
WireDirectives ==
    UNION {{[b EXCEPT !.signature = sg] :
                sg \in {None, Some("zz")}
                       \cup {sign(b, key).signature : key \in Keys}} :
           b \in UnsignedWire}

NodesInit ==
    /\ inbox = None
    /\ out = None
    /\ activeDirectives = [id \in WireIds |-> None]

\* a reader that takes the next line while a response is still pending
ReceiveEager(d) ==
    /\ inbox = None
    /\ inbox' = Some(d)
    /\ UNCHANGED <<out, activeDirectives>>
    /\ UNCHANGED <<barkVars, kernelVars, stateVars, taskVars>>

\* read_line and serde_json::from_str succeed; the loop reads the next
\* line only after the handler has returned and the response is printed
Receive(d) ==
    /\ inbox = None
    /\ out = None
    /\ inbox' = Some(d)
    /\ UNCHANGED <<out, activeDirectives>>
    /\ UNCHANGED <<barkVars, kernelVars, stateVars, taskVars>>

\* what the handler has produced when it is suspended in the sleep of
\* collect_node_responses: the directive is routed, registered and sent,
\* nothing is collected and there is no response yet
AwaitingResponses(o) ==
    [o EXCEPT !.stage = "collecting", !.collected = <<>>,
              !.response = [request_id |-> o.d.request_id,
                            source_node |-> "LexMon", status |-> "Pending"]]

\* lex-mon: process_council_directive on the parsed directive, up to its
\* return (a Failure before any dispatch) or up to the await of the
\* collection
CouncilStep ==
    /\ IsSome(inbox)
    /\ LET d == Get(inbox)
           o == process_council_directive(d)
       IN /\ out' = Some(IF o.dispatched = <<>> THEN o
                         ELSE AwaitingResponses(o))
          /\ activeDirectives' =
               IF o.registered
               THEN [activeDirectives EXCEPT ![d.request_id] =
                       Some(DirectiveState(d, Len(o.dispatched)))]
               ELSE activeDirectives
    /\ inbox' = None
    /\ UNCHANGED <<barkVars, kernelVars, stateVars, taskVars>>

\* lex-mon: the collection returns and the responses are synthesized
CouncilCollect ==
    /\ IsSome(out)
    /\ Get(out).stage = "collecting"
    /\ out' = Some(process_council_directive(Get(out).d))
    /\ UNCHANGED <<inbox, activeDirectives>>
    /\ UNCHANGED <<barkVars, kernelVars, stateVars, taskVars>>

\* an agent: process_directive on the parsed directive
AgentStep(node) ==
    /\ IsSome(inbox)
    /\ out' = Some(process_directive(node, Get(inbox)))
    /\ inbox' = None
    /\ UNCHANGED activeDirectives
    /\ UNCHANGED <<barkVars, kernelVars, stateVars, taskVars>>

\* a loop that goes on only after a Success: a Failure leaves through `?`
RespondSuccessOnly ==
    /\ IsSome(out)
    /\ Get(out).stage = "done"
    /\ Get(out).response.status = "Success"
    /\ out' = None
    /\ UNCHANGED <<inbox, activeDirectives>>
    /\ UNCHANGED <<barkVars, kernelVars, stateVars, taskVars>>

\* the response is printed and the loop sleeps before the next read
Respond ==
    /\ IsSome(out)
    /\ Get(out).stage = "done"
    /\ out' = None
    /\ UNCHANGED <<inbox, activeDirectives>>
    /\ UNCHANGED <<barkVars, kernelVars, stateVars, taskVars>>

NodesNext ==
    \/ \E d \in WireDirectives : Receive(d)
    \/ CouncilStep
    \/ CouncilCollect
    \/ \E node \in Agents : AgentStep(node)
    \/ Respond

\* the coordinator alone, fed every directive of the wire
CouncilNext ==
    \/ \E d \in WireDirectives : Receive(d)
    \/ CouncilStep
    \/ CouncilCollect
    \/ Respond

\* the coordinator alone, fed signed ANALYZE directives
RoutingTable ==
    [runway |-> "LexWth", financial |-> "LexWth", wealth |-> "LexWth",
     bioload |-> "LexVit", vital |-> "LexVit", health |-> "LexVit",
     stress |-> "LexVit", sleep |-> "LexVit",
     pivot |-> "LexEnt", strategy |-> "LexEnt", enterprise |-> "LexEnt",
     knowledge |-> "LexKno", information |-> "LexKno", data |-> "LexKno",
     create |-> "LexCrt", generate |-> "LexCrt", output |-> "LexCrt",
     plan |-> "LexOrd", schedule |-> "LexOrd", logistics |-> "LexOrd",
     social |-> "LexKin", relationship |-> "LexKin", kinship |-> "LexKin",
     learn |-> "LexGrw", growth |-> "LexGrw", capability |-> "LexGrw",
     environment |-> "LexSan", sanctuary |-> "LexSan",
     infrastructure |-> "LexSan",
     leisure |-> "LexLei", recovery |-> "LexLei", restoration |-> "LexLei",
     communication |-> "LexOut", influence |-> "LexOut",
     outreach |-> "LexOut",
     legacy |-> "LexLeg", history |-> "LexLeg", meta |-> "LexLeg"]

Keywords == DOMAIN RoutingTable

RouterPayloads ==
    {JStr(k) : k \in Keywords} \cup {JObj("q", k) : k \in Keywords}
        \cup {JStr(""), JStr("x"), JStr("Runway"), JNull, JNum(7),
              JObj("q", "Runway Health"), JObj("q", "x")}

RouterDirectives ==
    {sign(BarkDirective_new(1, 0, "a", "LexMon", "ANALYZE", p), TrustedKey) :
        p \in RouterPayloads}

RouterNext ==
    \/ \E d \in RouterDirectives : Receive(d)
    \/ CouncilStep
    \/ CouncilCollect
    \/ Respond

\* the synthesizer alone, applied to lists of responses
SynthSources == {"LexWth", "LexVit", "LexKno"}
SynthResponses ==
    {BarkResponse_success(1, src, pl) :
        src \in SynthSources,
        pl \in {[runway_months |-> 29], [runway_months |-> 45],
                [runway_months |-> 65], [bioload_percentage |-> 720],
                [bioload_percentage |-> 800], [bioload_percentage |-> 860]}}
    \cup {BarkResponse_failure(1, src, "timeout") : src \in SynthSources}

ResponseLists ==
    {<<>>} \cup {<<r>> : r \in SynthResponses}
           \cup {<<r, q>> : r \in SynthResponses, q \in SynthResponses}

Synthesize(responses) ==
    /\ out = None
    /\ out' = Some([node |-> "LexMon", stage |-> "done",
                    collected |-> responses,
                    response |-> synthesize_analysis_response(1, responses)])
    /\ UNCHANGED <<inbox, activeDirectives>>
    /\ UNCHANGED <<barkVars, kernelVars, stateVars, taskVars>>

SynthNext ==
    \/ \E responses \in ResponseLists : Synthesize(responses)
    \/ Respond

----------------------------------------------------------------------------
(* shared/state: f64 arithmetic                                            *)
(*                                                                         *)
(* A finite f64 is kept in fixed point, as an integer number of 10^-8;     *)
(* every product is rounded to the nearest unit (f64 rounds every product  *)
(* too, to 53 bits).  NaN and the two infinities are values of their own,  *)
(* with the IEEE-754 rules for +, *, abs, comparison and f64::clamp.       *)

Scale == 10 ^ 8

F(v) == [k |-> "fin", v |-> v]
NaN == [k |-> "nan", v |-> 0]
PInf == [k |-> "inf", v |-> 1]
NInf == [k |-> "inf", v |-> -1]

Abs(x) == IF x < 0 THEN -x ELSE x

\* x * n / d for integers x and 0 <= n <= d, rounded to the nearest integer
\* without leaving 32 bits
MulDiv(x, n, d) ==
    LET a == Abs(x)
        r == (a \div d) * n + ((a % d) * n + d \div 2) \div d
    IN IF x < 0 THEN -r ELSE r

\* the f64 product c * x for a matrix entry c = n/d >= 0
FMulC(c, x) ==
    CASE x.k = "nan" -> NaN
      [] x.k = "inf" -> IF c[1] = 0 THEN NaN ELSE x
      [] OTHER -> F(MulDiv(x.v, c[1], c[2]))

\* the f64 sum x + y
FAdd(x, y) ==
    CASE x.k = "nan" \/ y.k = "nan" -> NaN
      [] x.k = "inf" /\ y.k = "inf" -> IF x.v = y.v THEN x ELSE NaN
      [] x.k = "inf" -> x
      [] y.k = "inf" -> y
      [] OTHER -> F(x.v + y.v)

ClampMax == 10 * Scale

\* f64::clamp(-10.0, 10.0): NaN stays NaN
FClamp(x) ==
    CASE x.k = "nan" -> NaN
      [] x.k = "inf" -> F(x.v * ClampMax)
      [] OTHER -> F(IF x.v > ClampMax THEN ClampMax
                    ELSE IF x.v < -ClampMax THEN -ClampMax ELSE x.v)

\* (a - b).abs()
FAbsDiff(a, b) ==
    CASE a.k = "nan" \/ b.k = "nan" -> NaN
      [] a.k = "inf" /\ b.k = "inf" -> IF a.v = b.v THEN NaN ELSE PInf
      [] a.k = "inf" \/ b.k = "inf" -> PInf
      [] OTHER -> F(Abs(a.v - b.v))

\* a > b and a < b on f64: false whenever a NaN is involved
FGt(a, b) ==
    CASE a.k = "nan" \/ b.k = "nan" -> FALSE
      [] a.k = "inf" /\ b.k = "inf" -> a.v > b.v
      [] a.k = "inf" -> a.v > 0
      [] b.k = "inf" -> b.v < 0
      [] OTHER -> a.v > b.v
FLt(a, b) == FGt(b, a)

\* vec![0.0; n]
Zeros(n) == [i \in 1..n |-> F(0)]

RECURSIVE FSum(_, _)
\* acc += t for every t of terms, in order
FSum(acc, terms) ==
    IF terms = <<>> THEN acc ELSE FSum(FAdd(acc, Head(terms)), Tail(terms))

----------------------------------------------------------------------------
(* shared/state: StateManager *)

Min(a, b) == IF a < b THEN a ELSE b

\* a transition matrix whose "small perturbations" are drawn at the time
\* of the call
create_transition_matrix_perturbed(size) ==
    [matrix |-> [i \in 1..size |-> [j \in 1..size |->
                    IF i = j THEN <<9800 + (i - 1) + now, 10000>>
                    ELSE IF j = i + 1 THEN <<i, 100>>
                    ELSE <<0, 1>>]],
     size |-> size]

\* matrix entries are the rationals the code writes, as <<n, d>>; i and j
\* are one-based here, zero-based in the code
create_deterministic_transition_matrix(size) ==
    [matrix |-> [i \in 1..size |-> [j \in 1..size |->
                    IF i = j THEN <<9800 + (i - 1), 10000>>
                    ELSE IF j = i + 1 THEN <<i, 100>>
                    ELSE <<0, 1>>]],
     size |-> size]

\* a control matrix whose diagonal is seeded from the wall clock
create_control_matrix_seeded(state_size, input_size) ==
    [matrix |-> [i \in 1..state_size |-> [j \in 1..input_size |->
                    IF i # j THEN <<2 * ((i - 1) + (j - 1)),
                                    100 * (state_size + input_size)>>
                    ELSE <<1 + now, 10>>]],
     input_size |-> input_size,
     state_size |-> state_size]

create_control_matrix(state_size, input_size) ==
    [matrix |-> [i \in 1..state_size |-> [j \in 1..input_size |->
                    IF i # j THEN <<2 * ((i - 1) + (j - 1)),
                                    100 * (state_size + input_size)>>
                    ELSE <<1, 10>>]],
     input_size |-> input_size,
     state_size |-> state_size]

\* the recurrence with a perturbation drawn from the state's own id
compute_next_state_noisy(current_state, control_input, node_state) ==
    LET state_size == Len(current_state.state_data)
        A == node_state.transition_matrix.matrix
        B == node_state.control_matrix.matrix
        row(i) ==
            [j \in 1..state_size |-> FMulC(A[i][j], current_state.state_data[j])]
            \o [j \in 1..Min(Len(control_input),
                             IF i <= Len(B) THEN Len(B[i]) ELSE 0) |->
                    FMulC(B[i][j], control_input[j])]
            \o <<F(current_state.state_id % 7)>>
    IN [i \in 1..state_size |-> FClamp(FSum(F(0), row(i)))]

\* h_t = clamp(A * h_(t-1) + B * u_t)
compute_next_state(current_state, control_input, node_state) ==
    LET state_size == Len(current_state.state_data)
        A == node_state.transition_matrix.matrix
        B == node_state.control_matrix.matrix
        row(i) ==
            [j \in 1..state_size |-> FMulC(A[i][j], current_state.state_data[j])]
            \o [j \in 1..Min(Len(control_input),
                             IF i <= Len(B) THEN Len(B[i]) ELSE 0) |->
                    FMulC(B[i][j], control_input[j])]
    IN [i \in 1..state_size |-> FClamp(FSum(F(0), row(i)))]

RECURSIVE MaxDiff(_, _, _, _)
\* the loop of check_convergence over the first n zipped pairs
MaxDiff(prev, new, n, max_diff) ==
    IF n = 0 THEN max_diff
    ELSE LET m == MaxDiff(prev, new, n - 1, max_diff)
             diff == FAbsDiff(prev[n], new[n])
         IN IF FGt(diff, m) THEN diff ELSE m

check_convergence(prev_state, new_state, threshold) ==
    FLt(MaxDiff(prev_state.state_data, new_state.state_data,
                Min(Len(prev_state.state_data), Len(new_state.state_data)),
                F(0)),
        F(threshold))

ConvergenceThreshold == Scale \div (10 ^ 6)

StateManager_new ==
    [ledger |-> [states |-> <<>>, state_history |-> <<>>,
                 immutable_ledger |-> <<>>],
     deterministic_mode |-> TRUE]

\* serde_json writes a finite f64 as a number and NaN or an infinity as
\* null; reading null back into an f64 field is an error
SerF64(x) == IF x.k = "fin" THEN [json |-> "number", v |-> x.v]
             ELSE [json |-> "null", v |-> 0]

\* serde_json reads a number by converting its digits to an integer, that
\* integer to f64, and multiplying or dividing by a power of ten.  Without
\* the crate's float_roundtrip feature a number of 17 significant digits is
\* rounded twice and can come back one unit in the last place off; zero
\* and short decimals come back exact.  slip is that error, in units.
ParseSlips == {0, 1}
DeF64(y, slip) == IF y.v = 0 THEN F(0) ELSE F(y.v + slip)

SerVec(xs) == [i \in 1..Len(xs) |-> SerF64(xs[i])]
DeVec(ys, slip) == [i \in 1..Len(ys) |-> DeF64(ys[i], slip)]
VecReadable(ys) == \A i \in 1..Len(ys) : ys[i].json = "number"

SerStateVector(sv) ==
    [sv EXCEPT !.state_data = SerVec(@), !.hidden_state = SerVec(@),
               !.control_input = SerVec(@)]
\* state_data holds computed values, which have long expansions; the
\* hidden state is zero and the control inputs are the callers' literals
DeStateVector(js, slip) ==
    [js EXCEPT !.state_data = DeVec(@, slip), !.hidden_state = DeVec(@, 0),
               !.control_input = DeVec(@, 0)]
StateVectorReadable(js) ==
    /\ VecReadable(js.state_data)
    /\ VecReadable(js.hidden_state)
    /\ VecReadable(js.control_input)

\* serde_json::to_string_pretty(&self.ledger)
SerLedger(l) ==
    [wellformed |-> TRUE,
     states |-> [id \in DOMAIN l.states |->
                    [l.states[id] EXCEPT !.current_state = SerStateVector(@)]],
     state_history |-> [i \in 1..Len(l.state_history) |->
                            SerStateVector(l.state_history[i])],
     immutable_ledger |-> [i \in 1..Len(l.immutable_ledger) |->
                            SerStateVector(l.immutable_ledger[i])]]

\* a string that is no StateLedger document
MalformedSnapshot ==
    [wellformed |-> FALSE, states |-> <<>>, state_history |-> <<>>,
     immutable_ledger |-> <<>>]

\* serde_json::from_str::<StateLedger>(snapshot)
DeLedger(js, slip) ==
    IF /\ js.wellformed
       /\ \A id \in DOMAIN js.states :
            StateVectorReadable(js.states[id].current_state)
       /\ \A i \in 1..Len(js.state_history) :
            StateVectorReadable(js.state_history[i])
       /\ \A i \in 1..Len(js.immutable_ledger) :
            StateVectorReadable(js.immutable_ledger[i])
    THEN Ok([states |-> [id \in DOMAIN js.states |->
                [js.states[id] EXCEPT !.current_state = DeStateVector(@, slip)]],
             state_history |-> [i \in 1..Len(js.state_history) |->
                                    DeStateVector(js.state_history[i], slip)],
             immutable_ledger |-> [i \in 1..Len(js.immutable_ledger) |->
                                    DeStateVector(js.immutable_ledger[i], slip)]])
    ELSE Err("serde_json::Error")

----------------------------------------------------------------------------
(* Callers of the StateManager *)

MaxOwners == 2          \* nodes registered with one manager
MaxUuids == 5           \* Uuid::new_v4 values one manager draws
MaxClock == 1           \* latest reading of Utc::now()

Managers == {1, 2}
NodeTypes == {"LEX-VIT", "LEX-KIN"}
\* (state_size, input_size)
Shapes == {<<4, 4>>, <<2, 1>>}

\* -0.00127527, -0.00164281, -0.00106069, -0.00011003
SlowInput == <<F(-127527), F(-164281), F(-106069), F(-11003)>>
ControlInputs == {Zeros(4), SlowInput, <<F(Scale \div 10)>>, <<PInf, NInf>>}

\* a generator that restarts its sequence on every call
RepeatedUuid(m, k) == 100 * m + k

\* Uuid::new_v4: the k-th value manager m draws next; never one drawn before
FreshUuid(m, k) == 100 * m + uuids[m] + k

StateInit ==
    /\ mgr = [m \in Managers |-> StateManager_new]
    /\ uuids = [m \in Managers |-> 0]
    /\ now = 0
    /\ snap = None
    /\ ret = None

Insert(map, key, value) ==
    [x \in DOMAIN map \cup {key} |-> IF x = key THEN value ELSE map[x]]

\* register_node; t1 <= t2 are its two readings of the clock
Register(m, node_type, state_size, input_size, t1, t2) ==
    LET node_id == FreshUuid(m, 1)
        initial_state ==
            [node_id |-> node_id,
             timestamp |-> t1,
             state_data |-> Zeros(state_size),
             hidden_state |-> Zeros(state_size),
             control_input |-> Zeros(input_size),
             state_id |-> FreshUuid(m, 2)]
        node_state ==
            [node_type |-> node_type,
             current_state |-> initial_state,
             transition_matrix |->
                create_deterministic_transition_matrix(state_size),
             control_matrix |-> create_control_matrix(state_size, input_size),
             last_update |-> t2,
             convergence_threshold |-> ConvergenceThreshold,
             temperature |-> 0]
    IN /\ Cardinality(DOMAIN mgr[m].ledger.states) < MaxOwners
       /\ uuids[m] + 2 <= MaxUuids
       /\ mgr' = [mgr EXCEPT ![m].ledger.states = Insert(@, node_id, node_state)]
       /\ uuids' = [uuids EXCEPT ![m] = @ + 2]
       /\ now' = t2
       /\ ret' = Some([op |-> "register_node", m |-> m, r |-> Ok(node_id)])
       /\ UNCHANGED snap
       /\ UNCHANGED <<barkVars, nodeVars, kernelVars, taskVars>>

\* update_state that hands back the clone it took before the update
update_state_returns_prev(ledger, node_id, control_input, state_id, t1, t2) ==
    IF node_id \in DOMAIN ledger.states
    THEN LET node_state == ledger.states[node_id]
             prev_state == node_state.current_state
             new_state_data ==
                compute_next_state(prev_state, control_input, node_state)
             new_state ==
                [node_id |-> node_id,
                 timestamp |-> t1,
                 state_data |-> new_state_data,
                 hidden_state |-> prev_state.hidden_state,
                 control_input |-> control_input,
                 state_id |-> state_id]
             converged == check_convergence(prev_state, new_state,
                                            node_state.convergence_threshold)
         IN [ledger |-> [ledger EXCEPT
                !.states[node_id].current_state = new_state,
                !.states[node_id].last_update = t2,
                !.state_history = Append(@, new_state),
                !.immutable_ledger =
                    IF converged THEN Append(@, new_state) ELSE @],
             r |-> Ok(prev_state)]
    ELSE [ledger |-> ledger, r |-> Err("Node not found")]

\* update_state as a function of the ledger: state_id is the value drawn
\* from Uuid::new_v4, t1 <= t2 are the readings of the clock
update_state(ledger, node_id, control_input, state_id, t1, t2) ==
    IF node_id \in DOMAIN ledger.states
    THEN LET node_state == ledger.states[node_id]
             prev_state == node_state.current_state
             new_state_data ==
                compute_next_state(prev_state, control_input, node_state)
             new_state ==
                [node_id |-> node_id,
                 timestamp |-> t1,
                 state_data |-> new_state_data,
                 hidden_state |-> prev_state.hidden_state,
                 control_input |-> control_input,
                 state_id |-> state_id]
             converged == check_convergence(prev_state, new_state,
                                            node_state.convergence_threshold)
         IN [ledger |-> [ledger EXCEPT
                !.states[node_id].current_state = new_state,
                !.states[node_id].last_update = t2,
                !.state_history = Append(@, new_state),
                !.immutable_ledger =
                    IF converged THEN Append(@, new_state) ELSE @],
             r |-> Ok(new_state)]
    ELSE [ledger |-> ledger, r |-> Err("Node not found")]

\* update_state over a history that keeps the latest vector only
UpdateCappedHistory(m, node_id, control_input, t1, t2) ==
    /\ node_id \in DOMAIN mgr[m].ledger.states
    /\ uuids[m] + 1 <= MaxUuids
    /\ LET res == update_state(mgr[m].ledger, node_id, control_input,
                               FreshUuid(m, 1), t1, t2)
       IN /\ mgr' = [mgr EXCEPT ![m].ledger =
                        [res.ledger EXCEPT !.state_history = <<res.r.val>>]]
          /\ ret' = Some([op |-> "update_state", m |-> m, node_id |-> node_id,
                          control_input |-> control_input, r |-> res.r])
    /\ uuids' = [uuids EXCEPT ![m] = @ + 1]
    /\ now' = t2
    /\ UNCHANGED snap
    /\ UNCHANGED <<barkVars, nodeVars, kernelVars, taskVars>>

\* update_state on a registered id
Update(m, node_id, control_input, t1, t2) ==
    /\ node_id \in DOMAIN mgr[m].ledger.states
    /\ uuids[m] + 1 <= MaxUuids
    /\ LET res == update_state(mgr[m].ledger, node_id, control_input,
                               FreshUuid(m, 1), t1, t2)
       IN /\ mgr' = [mgr EXCEPT ![m].ledger = res.ledger]
          /\ ret' = Some([op |-> "update_state", m |-> m, node_id |-> node_id,
                          control_input |-> control_input, r |-> res.r])
    /\ uuids' = [uuids EXCEPT ![m] = @ + 1]
    /\ now' = t2
    /\ UNCHANGED snap
    /\ UNCHANGED <<barkVars, nodeVars, kernelVars, taskVars>>

\* update_state on an unknown id, written with the map's entry API: the
\* lookup creates an empty entry before the error is returned
UpdateUnknownVivify(m, node_id) ==
    /\ node_id \notin DOMAIN mgr[m].ledger.states
    /\ mgr' = [mgr EXCEPT ![m].ledger.states =
                Insert(@, node_id,
                    [node_type |-> "",
                     current_state |->
                        [node_id |-> node_id, timestamp |-> now,
                         state_data |-> <<>>, hidden_state |-> <<>>,
                         control_input |-> <<>>, state_id |-> node_id],
                     transition_matrix |->
                        create_deterministic_transition_matrix(0),
                     control_matrix |-> create_control_matrix(0, 0),
                     last_update |-> now,
                     convergence_threshold |-> ConvergenceThreshold,
                     temperature |-> 0])]
    /\ ret' = Some([op |-> "update_state", m |-> m, node_id |-> node_id,
                    r |-> Err("Node not found")])
    /\ UNCHANGED <<uuids, now, snap>>
    /\ UNCHANGED <<barkVars, nodeVars, kernelVars, taskVars>>

\* update_state on an id that is not in the map
UpdateUnknown(m, node_id) ==
    /\ node_id \notin DOMAIN mgr[m].ledger.states
    /\ ret' = Some([op |-> "update_state", m |-> m, node_id |-> node_id,
                    r |-> Err("Node not found")])
    /\ UNCHANGED <<mgr, uuids, now, snap>>
    /\ UNCHANGED <<barkVars, nodeVars, kernelVars, taskVars>>

\* get_node_state: a reference to the entry, or the error of ok_or_else
get_node_state(ledger, node_id) ==
    IF node_id \in DOMAIN ledger.states THEN Ok(ledger.states[node_id])
    ELSE Err("Node state not found")

GetNodeState(m, node_id) ==
    /\ ret' = Some([op |-> "get_node_state", m |-> m, node_id |-> node_id,
                    r |-> get_node_state(mgr[m].ledger, node_id)])
    /\ UNCHANGED <<mgr, uuids, now, snap>>
    /\ UNCHANGED <<barkVars, nodeVars, kernelVars, taskVars>>

\* create_snapshot
CreateSnapshot(m) ==
    /\ snap = None
    /\ snap' = Some(SerLedger(mgr[m].ledger))
    /\ ret' = Some([op |-> "create_snapshot", m |-> m, r |-> Ok(TRUE)])
    /\ UNCHANGED <<mgr, uuids, now>>
    /\ UNCHANGED <<barkVars, nodeVars, kernelVars, taskVars>>

\* load_snapshot that assigns from_str(..).unwrap_or_default() before it
\* reports the error
load_snapshot_or_default(ledger, snapshot, slip) ==
    LET parsed == DeLedger(snapshot, slip)
    IN IF parsed.ok THEN [ledger |-> parsed.val, r |-> Ok(TRUE)]
       ELSE [ledger |-> StateManager_new.ledger, r |-> Err(parsed.err)]

\* load_snapshot as a function of the ledger: the ? returns before the
\* assignment when parsing fails
load_snapshot(ledger, snapshot, slip) ==
    LET parsed == DeLedger(snapshot, slip)
    IN IF parsed.ok THEN [ledger |-> parsed.val, r |-> Ok(TRUE)]
       ELSE [ledger |-> ledger, r |-> Err(parsed.err)]

LoadSnapshot(m, snapshot, slip) ==
    LET res == load_snapshot(mgr[m].ledger, snapshot, slip)
    IN /\ mgr' = [mgr EXCEPT ![m].ledger = res.ledger]
       /\ ret' = Some([op |-> "load_snapshot", m |-> m, r |-> res.r])
       /\ UNCHANGED <<uuids, now, snap>>
       /\ UNCHANGED <<barkVars, nodeVars, kernelVars, taskVars>>

\* the ids a caller can name: those any manager has handed out, and another
KnownIds == UNION {DOMAIN mgr[m].ledger.states : m \in Managers} \cup {999}

ClockPairs == {tt \in (now..MaxClock) \X (now..MaxClock) : tt[1] <= tt[2]}

\* one manager with every operation
StateNext ==
    \/ \E sh \in Shapes, tt \in ClockPairs :
            Register(1, "LEX-VIT", sh[1], sh[2], tt[1], tt[2])
    \/ \E id \in KnownIds, u \in ControlInputs, tt \in ClockPairs :
            Update(1, id, u, tt[1], tt[2])
    \/ \E id \in KnownIds : UpdateUnknown(1, id)
    \/ \E id \in KnownIds : GetNodeState(1, id)
    \/ CreateSnapshot(1)
    \/ \E sn \in {MalformedSnapshot} \cup {snap[i] : i \in DOMAIN snap},
          slip \in ParseSlips :
            LoadSnapshot(1, sn, slip)

\* two independent managers; each registers nodes and updates them
MaxPairUuids == 4       \* Uuid::new_v4 values each of two managers draws
PairInputs == {<<F(Scale \div 10)>>, <<PInf, NInf>>}

\* calls whose two readings of the clock fall into one tick
PairClock == {tt \in ClockPairs : tt[1] = tt[2]}

PairNext ==
    \/ \E m \in Managers, nt \in NodeTypes, sh \in Shapes, tt \in PairClock :
            /\ uuids[m] + 2 <= MaxPairUuids
            /\ Register(m, nt, sh[1], sh[2], tt[1], tt[2])
    \/ \E m \in Managers, id \in KnownIds, u \in PairInputs, tt \in PairClock :
            /\ uuids[m] + 1 <= MaxPairUuids
            /\ Update(m, id, u, tt[1], tt[2])

----------------------------------------------------------------------------
(* The tasks of a node that share its state behind Arc<RwLock<..>>: the    *)
(* periodic self-update task and any other holder of the node              *)

MaxTaskUuids == 5       \* Uuid::new_v4 values the shared manager draws

\* 1: the task spawned in main with the 5 s interval; 2: another caller of
\* process_state_update
Tasks == {1, 2}
TaskInputs == {<<F(Scale \div 10)>>, <<F(0)>>}

\* tokio::sync::RwLock: one writer or any number of readers
Unlocked == [writer |-> 0, readers |-> {}]

TasksInit ==
    /\ stateLock = 0
    /\ taskPc = [t \in Tasks |-> "idle"]
    /\ taskLocal = [t \in Tasks |-> None]
    /\ metricsLock = Unlocked
    /\ protocolLock = Unlocked
    /\ kinPc = [t \in Tasks |-> IF t = 1 THEN "tick" ELSE "sleep"]
    /\ kinLocal = [t \in Tasks |-> None]
    /\ kinMetrics = [relationship_strength |-> 85, trust_coefficient |-> 92,
                     collaboration_score |-> 78, harmony_index |-> 89,
                     empathy_level |-> 87]
    /\ kinState = None
    /\ kinOut = None
    /\ kinHandled = 0

\* the state's owner is registered before the tasks run
TaskSetup ==
    /\ stateLock = 0
    /\ \A t \in Tasks : taskPc[t] = "idle"
    /\ uuids[1] + 2 <= MaxTaskUuids
    /\ Register(1, "LEX-KIN", 2, 1, now, now)

\* self.state.write() is called on behalf of owner node_id: the task
\* queues for the write guard
TaskRequest(t, node_id) ==
    /\ taskPc[t] = "idle"
    /\ node_id \in DOMAIN mgr[1].ledger.states
    /\ taskPc' = [taskPc EXCEPT ![t] = "waiting"]
    /\ taskLocal' = [taskLocal EXCEPT ![t] = Some([node_id |-> node_id])]
    /\ UNCHANGED <<stateLock, kinVars>>
    /\ UNCHANGED <<barkVars, nodeVars, kernelVars, stateVars>>

\* a write() that hands out a guard while another one is alive
TaskAcquireUnguarded(t) ==
    /\ taskPc[t] = "waiting"
    /\ stateLock' = t
    /\ taskPc' = [taskPc EXCEPT ![t] = "locked"]
    /\ UNCHANGED <<taskLocal, kinVars>>
    /\ UNCHANGED <<barkVars, nodeVars, kernelVars, stateVars>>

\* .await on write() completes: no other guard is alive
TaskAcquire(t) ==
    /\ taskPc[t] = "waiting"
    /\ stateLock = 0
    /\ stateLock' = t
    /\ taskPc' = [taskPc EXCEPT ![t] = "locked"]
    /\ UNCHANGED <<taskLocal, kinVars>>
    /\ UNCHANGED <<barkVars, nodeVars, kernelVars, stateVars>>

\* update_state, first half: the owner is looked up and its current state
\* is cloned into prev_state
TaskRead(t, control_input) ==
    /\ taskPc[t] = "locked"
    /\ uuids[1] + 1 <= MaxTaskUuids
    /\ LET node_id == Get(taskLocal[t]).node_id
       IN taskLocal' = [taskLocal EXCEPT ![t] =
            Some([node_id |-> node_id, control_input |-> control_input,
                  prev_state |-> mgr[1].ledger.states[node_id].current_state])]
    /\ taskPc' = [taskPc EXCEPT ![t] = "updating"]
    /\ UNCHANGED <<stateLock, kinVars>>
    /\ UNCHANGED <<barkVars, nodeVars, kernelVars, stateVars>>

\* update_state, second half: the new state is computed from prev_state
\* and written to current_state, the history and the immutable ledger
TaskWrite(t) ==
    /\ taskPc[t] = "updating"
    /\ LET l == Get(taskLocal[t])
           res == update_state(
                    [mgr[1].ledger EXCEPT
                        !.states[l.node_id].current_state = l.prev_state],
                    l.node_id, l.control_input, FreshUuid(1, 1), now, now)
       IN /\ mgr' = [mgr EXCEPT ![1].ledger = res.ledger]
          /\ ret' = Some([op |-> "update_state", m |-> 1,
                          node_id |-> l.node_id,
                          control_input |-> l.control_input, r |-> res.r])
    /\ uuids' = [uuids EXCEPT ![1] = @ + 1]
    /\ taskPc' = [taskPc EXCEPT ![t] = "updated"]
    /\ UNCHANGED <<stateLock, taskLocal, kinVars>>
    /\ UNCHANGED <<now, snap>>
    /\ UNCHANGED <<barkVars, nodeVars, kernelVars>>

\* process_state_update returns: the guard is dropped
TaskRelease(t) ==
    /\ taskPc[t] = "updated"
    /\ stateLock' = IF stateLock = t THEN 0 ELSE stateLock
    /\ taskPc' = [taskPc EXCEPT ![t] = "idle"]
    /\ taskLocal' = [taskLocal EXCEPT ![t] = None]
    /\ UNCHANGED kinVars
    /\ UNCHANGED <<barkVars, nodeVars, kernelVars, stateVars>>

TasksNext ==
    \/ TaskSetup
    \/ \E t \in Tasks, id \in KnownIds : TaskRequest(t, id)
    \/ \E t \in Tasks : TaskAcquire(t)
    \/ \E t \in Tasks, u \in TaskInputs : TaskRead(t, u)
    \/ \E t \in Tasks : TaskWrite(t)
    \/ \E t \in Tasks : TaskRelease(t)

----------------------------------------------------------------------------
(* nodes/lex-kin: a periodically self-updating node.  Task 1 is the task   *)
(* main spawns, which runs process_state_update on every tick; task 2 is   *)
(* main itself, which runs process_kinship_directive on one directive      *)
(* after another.  Every .await on a lock is a step of its own.            *)

MaxKinDirectives == 2   \* directives main hands to the node (test_directives)

\* the directive types of the match, and one it has no arm for
KinDirectiveTypes ==
    {"BUILD_TRUST", "STRENGTHEN_BONDS", "FACILITATE_COLLABORATION",
     "EMPATHY_BOOST", "ARCHIVE"}

\* the match on directive_type; (x + 0.05).min(1.0) in hundredths
kin_match(metrics, directive_type) ==
    CASE directive_type = "BUILD_TRUST" ->
            [metrics EXCEPT !.trust_coefficient = Min(@ + 5, 100)]
      [] directive_type = "STRENGTHEN_BONDS" ->
            [metrics EXCEPT !.relationship_strength = Min(@ + 3, 100),
                            !.harmony_index = Min(@ + 2, 100)]
      [] directive_type = "FACILITATE_COLLABORATION" ->
            [metrics EXCEPT !.collaboration_score = Min(@ + 7, 100)]
      [] directive_type = "EMPATHY_BOOST" ->
            [metrics EXCEPT !.empathy_level = Min(@ + 4, 100)]
      [] OTHER -> metrics

\* main: the sleep is over and process_kinship_directive is called
KinDirective(directive_type) ==
    /\ kinPc[2] = "sleep"
    /\ kinHandled < MaxKinDirectives
    /\ kinHandled' = kinHandled + 1
    /\ kinLocal' = [kinLocal EXCEPT ![2] =
                        Some([directive_type |-> directive_type])]
    /\ kinPc' = [kinPc EXCEPT ![2] = "want_metrics"]
    /\ kinOut' = None
    /\ UNCHANGED <<metricsLock, protocolLock, kinMetrics, kinState>>
    /\ UNCHANGED <<stateLock, taskPc, taskLocal>>
    /\ UNCHANGED <<barkVars, nodeVars, kernelVars, stateVars>>

\* kinship_metrics.write().await completes, and the match runs
KinLockMetrics ==
    /\ kinPc[2] = "want_metrics"
    /\ metricsLock = Unlocked
    /\ metricsLock' = [metricsLock EXCEPT !.writer = 2]
    /\ kinMetrics' = kin_match(kinMetrics, Get(kinLocal[2]).directive_type)
    /\ kinPc' = [kinPc EXCEPT ![2] = "want_protocol"]
    /\ UNCHANGED <<protocolLock, kinLocal, kinState, kinOut, kinHandled>>
    /\ UNCHANGED <<stateLock, taskPc, taskLocal>>
    /\ UNCHANGED <<barkVars, nodeVars, kernelVars, stateVars>>

\* a handler that also waits for the node's state to be free before it
\* broadcasts
KinLockProtocolAfterState ==
    /\ kinPc[2] = "want_protocol"
    /\ protocolLock.writer = 0
    /\ stateLock = 0
    /\ protocolLock' = [protocolLock EXCEPT !.readers = @ \cup {2}]
    /\ kinPc' = [kinPc EXCEPT ![2] = "broadcasting"]
    /\ UNCHANGED <<metricsLock, kinLocal, kinMetrics, kinState, kinOut,
                   kinHandled>>
    /\ UNCHANGED <<stateLock, taskPc, taskLocal>>
    /\ UNCHANGED <<barkVars, nodeVars, kernelVars, stateVars>>

\* bark_protocol.read().await completes
KinLockProtocol ==
    /\ kinPc[2] = "want_protocol"
    /\ protocolLock.writer = 0
    /\ protocolLock' = [protocolLock EXCEPT !.readers = @ \cup {2}]
    /\ kinPc' = [kinPc EXCEPT ![2] = "broadcasting"]
    /\ UNCHANGED <<metricsLock, kinLocal, kinMetrics, kinState, kinOut,
                   kinHandled>>
    /\ UNCHANGED <<stateLock, taskPc, taskLocal>>
    /\ UNCHANGED <<barkVars, nodeVars, kernelVars, stateVars>>

\* broadcast_directive returns, Ok or Err, and process_kinship_directive
\* returns with it: both guards are dropped.  The function returns
\* Result<()>: there is no response for the caller of the directive.
KinBroadcast(ok) ==
    /\ kinPc[2] = "broadcasting"
    /\ kinOut' = Some([directive_type |-> Get(kinLocal[2]).directive_type,
                       r |-> IF ok THEN Ok(<<>>) ELSE Err("broadcast"),
                       response |-> None,
                       broadcast |-> [kind |-> "KINSHIP_UPDATE",
                                      metrics |-> kinMetrics]])
    /\ protocolLock' = [protocolLock EXCEPT !.readers = @ \ {2}]
    /\ metricsLock' = [metricsLock EXCEPT !.writer = 0]
    /\ kinLocal' = [kinLocal EXCEPT ![2] = None]
    /\ kinPc' = [kinPc EXCEPT ![2] = "sleep"]
    /\ UNCHANGED <<kinMetrics, kinState, kinHandled>>
    /\ UNCHANGED <<stateLock, taskPc, taskLocal>>
    /\ UNCHANGED <<barkVars, nodeVars, kernelVars, stateVars>>

\* the spawned task: interval.tick() completes and process_state_update
\* is called
KinTick ==
    /\ kinPc[1] = "tick"
    /\ kinPc' = [kinPc EXCEPT ![1] = "want_state"]
    /\ UNCHANGED <<metricsLock, protocolLock, kinLocal, kinMetrics, kinState,
                   kinOut, kinHandled>>
    /\ UNCHANGED <<stateLock, taskPc, taskLocal>>
    /\ UNCHANGED <<barkVars, nodeVars, kernelVars, stateVars>>

\* state.write().await completes
KinLockState ==
    /\ kinPc[1] = "want_state"
    /\ stateLock = 0
    /\ stateLock' = 1
    /\ kinPc' = [kinPc EXCEPT ![1] = "want_read"]
    /\ UNCHANGED <<metricsLock, protocolLock, kinLocal, kinMetrics, kinState,
                   kinOut, kinHandled>>
    /\ UNCHANGED <<taskPc, taskLocal>>
    /\ UNCHANGED <<barkVars, nodeVars, kernelVars, stateVars>>

\* get_kinship_status: kinship_metrics.read().await completes
KinReadLock ==
    /\ kinPc[1] = "want_read"
    /\ metricsLock.writer = 0
    /\ metricsLock' = [metricsLock EXCEPT !.readers = @ \cup {1}]
    /\ kinPc' = [kinPc EXCEPT ![1] = "reading"]
    /\ UNCHANGED <<protocolLock, kinLocal, kinMetrics, kinState, kinOut,
                   kinHandled>>
    /\ UNCHANGED <<stateLock, taskPc, taskLocal>>
    /\ UNCHANGED <<barkVars, nodeVars, kernelVars, stateVars>>

\* get_kinship_status: the metrics are cloned and the read guard dropped
KinReadClone ==
    /\ kinPc[1] = "reading"
    /\ kinLocal' = [kinLocal EXCEPT ![1] = Some(kinMetrics)]
    /\ metricsLock' = [metricsLock EXCEPT !.readers = @ \ {1}]
    /\ kinPc' = [kinPc EXCEPT ![1] = "have_data"]
    /\ UNCHANGED <<protocolLock, kinMetrics, kinState, kinOut, kinHandled>>
    /\ UNCHANGED <<stateLock, taskPc, taskLocal>>
    /\ UNCHANGED <<barkVars, nodeVars, kernelVars, stateVars>>

\* update_deterministic_state returns, Ok or Err, and process_state_update
\* returns with it: the write guard of the state is dropped
KinUpdateState(ok) ==
    /\ kinPc[1] = "have_data"
    /\ kinState' = IF ok THEN kinLocal[1] ELSE kinState
    /\ stateLock' = 0
    /\ kinLocal' = [kinLocal EXCEPT ![1] = None]
    /\ kinPc' = [kinPc EXCEPT ![1] = "tick"]
    /\ UNCHANGED <<metricsLock, protocolLock, kinMetrics, kinOut, kinHandled>>
    /\ UNCHANGED <<taskPc, taskLocal>>
    /\ UNCHANGED <<barkVars, nodeVars, kernelVars, stateVars>>

KinNext ==
    \/ \E directive_type \in KinDirectiveTypes : KinDirective(directive_type)
    \/ KinLockMetrics
    \/ KinLockProtocol
    \/ \E ok \in BOOLEAN : KinBroadcast(ok)
    \/ KinTick
    \/ KinLockState
    \/ KinReadLock
    \/ KinReadClone
    \/ \E ok \in BOOLEAN : KinUpdateState(ok)

----------------------------------------------------------------------------
(* Specifications *)

BarkIdle == BarkInit
StateIdle == StateInit
NodesIdle == NodesInit
KernelIdle == kernelConfig = KernelConfig_main /\ kernelOut = <<>>
TasksIdle == TasksInit

Init == StateInit /\ BarkIdle /\ NodesIdle /\ KernelIdle /\ TasksIdle
Next == StateNext
Spec == Init /\ [][Next]_vars

SpecPair == Init /\ [][PairNext]_vars

InitBark == BarkInit /\ NodesIdle /\ KernelIdle /\ StateIdle /\ TasksIdle
SpecBark == InitBark /\ [][BarkNext]_vars

InitNodes == NodesInit /\ BarkIdle /\ KernelIdle /\ StateIdle /\ TasksIdle
SpecNodes == InitNodes /\ [][NodesNext]_vars

SpecRouter == InitNodes /\ [][RouterNext]_vars

\* The runtime resumes the coordinator's task whenever it can run: a
\* handler that has a directive runs, the sleep of the collection and the
\* sleep of the loop end.  This is weak fairness of CouncilStep,
\* CouncilCollect and Respond; for the first two it is written out as
\* "infinitely often disabled or infinitely often taken", their enabling
\* conditions being IsSome(inbox) and stage = "collecting".
CouncilFairness ==
    /\ []<>(inbox = None) \/ []<><<CouncilStep>>_vars
    /\ []<>(~(IsSome(out) /\ Get(out).stage = "collecting"))
        \/ []<><<CouncilCollect>>_vars
    /\ WF_vars(Respond)

SpecCouncil == InitNodes /\ [][CouncilNext]_vars /\ CouncilFairness

SpecSynth == InitNodes /\ [][SynthNext]_vars

InitTasks == TasksInit /\ StateInit /\ BarkIdle /\ NodesIdle /\ KernelIdle
SpecTasks == InitTasks /\ [][TasksNext]_vars

\* tokio's RwLock hands the lock to its waiters in the order they queued:
\* a waiter whose lock is free again and again does get it.  A task that
\* can run is resumed, and the calls made under the guards return.
KinFairness ==
    /\ SF_vars(KinLockMetrics)
    /\ SF_vars(KinLockProtocol)
    /\ WF_vars(\E ok \in BOOLEAN : KinBroadcast(ok))
    /\ SF_vars(KinLockState)
    /\ SF_vars(KinReadLock)
    /\ WF_vars(KinReadClone)
    /\ WF_vars(\E ok \in BOOLEAN : KinUpdateState(ok))
SpecKin == InitTasks /\ [][KinNext]_vars /\ KinFairness

InitKernel == KernelInit /\ BarkIdle /\ NodesIdle /\ StateIdle /\ TasksIdle
SpecKernel == InitKernel /\ [][KernelNext]_vars

----------------------------------------------------------------------------
(* Properties of the protocol library and of the handlers *)

SigAbsent(d) == d.signature = None
SigMalformed(d) == IsSome(d.signature) /\ ~HexDecode(Get(d.signature)).ok
SigInvalid(d, k) ==
    /\ IsSome(d.signature)
    /\ HexDecode(Get(d.signature)).ok
    /\ ~Ed25519Verify(k, canonical_message(d), HexDecode(Get(d.signature)).val)

\* the non-signature fields of a directive
Content(d) ==
    <<d.request_id, d.caller_sigil, d.target_agent, d.kind, d.payload,
      d.governance_vector, d.timestamp>>

\* C1: a handler (the council's or an agent's) that ran on a directive whose
\* signature did not verify (absent, malformed or invalid) answered Failure,
\* dispatched the directive to nobody, registered nothing and ran no
\* business logic.
C1_OnlyVerifiedDirectivesHandled ==
    IsSome(out) =>
        LET o == Get(out)
        IN (o.stage = "done" /\ o.verified # Ok(TRUE)) =>
            /\ o.response.status = "Failure"
            /\ o.dispatched = <<>>
            /\ ~o.registered

\* C2: verify_signature answers Ok(false), never Err, when the signature is
\* absent, is not decodable, or is not valid for the key.
C2_VerifyReturnsFalseNotError ==
    IsSome(vres) =>
        LET v == Get(vres)
        IN (SigAbsent(v.d) \/ SigMalformed(v.d) \/ SigInvalid(v.d, v.key))
            => v.r = Ok(FALSE)

\* C3: a directive that comes out of sign (or new_signed) with key k
\* verifies against k: verify_signature returns Ok(true).
C3_SignThenVerify ==
    IsSome(vres) /\ IsSome(orig) =>
        LET v == Get(vres)
        IN (v.d = Get(orig) /\ v.key = signKey) => v.r = Ok(TRUE)

\* a directive with a governance vector was signed and then verified with
\* the signing key
C3_Witness ==
    /\ IsSome(vres)
    /\ IsSome(orig)
    /\ Get(vres).d = Get(orig)
    /\ Get(vres).key = signKey
    /\ IsSome(Get(orig).governance_vector)
    /\ Get(vres).r = Ok(TRUE)

\* C4: a directive that carries the signature of a signed directive but
\* differs from it in a non-signature field does not verify.
C4_AnyFieldChangeBreaksSignature ==
    IsSome(vres) /\ IsSome(orig) =>
        LET v == Get(vres)
        IN (/\ v.d.signature = Get(orig).signature
            /\ v.key = signKey
            /\ Content(v.d) # Content(Get(orig)))
           => v.r # Ok(TRUE)

\* C5: under the default-constructed KernelConfig no execute_vector call
\* skips signature verification.
C5_DefaultConfigEnforcesVerification ==
    kernelConfig = KernelConfig_default =>
        \A i \in DOMAIN kernelOut : kernelOut[i].verified # "skipped"

----------------------------------------------------------------------------
(* Properties of the StateManager *)

Ledger(m) == mgr[m].ledger
Owners(m) == DOMAIN Ledger(m).states

\* the StateVectors update_state has emitted for one owner, oldest first
Emitted(m, id) ==
    LET OfOwner(sv) == sv.node_id = id
    IN SelectSeq(Ledger(m).state_history, OfOwner)

InputsOf(m, id) ==
    [i \in 1..Len(Emitted(m, id)) |-> Emitted(m, id)[i].control_input]

Numeric(sv) == <<sv.state_data, sv.hidden_state, sv.control_input>>

SameSizes(a, b) ==
    /\ Ledger(1).states[a].transition_matrix.size
        = Ledger(2).states[b].transition_matrix.size
    /\ Ledger(1).states[a].control_matrix.input_size
        = Ledger(2).states[b].control_matrix.input_size

SameSetup(a, b) ==
    /\ SameSizes(a, b)
    /\ Ledger(1).states[a].node_type = Ledger(2).states[b].node_type

\* C6 as stated: two managers that registered a node with the same
\* (node_type, state_size, input_size) and applied the same control inputs
\* have emitted the same StateVectors, equal in every field.
C6_EmittedVectorsIdentical ==
    \A a \in Owners(1), b \in Owners(2) :
        (SameSetup(a, b) /\ InputsOf(1, a) = InputsOf(2, b))
            => Emitted(1, a) = Emitted(2, b)

\* C6: two managers that registered a node with the same (node_type,
\* state_size, input_size) and applied the same control inputs have emitted
\* StateVectors with the same state_data, hidden_state and control_input at
\* every position.
C6_EmittedNumbersIdentical ==
    \A a \in Owners(1), b \in Owners(2) :
        (SameSetup(a, b) /\ InputsOf(1, a) = InputsOf(2, b))
            => /\ Len(Emitted(1, a)) = Len(Emitted(2, b))
               /\ \A i \in 1..Len(Emitted(1, a)) :
                    Numeric(Emitted(1, a)[i]) = Numeric(Emitted(2, b)[i])

\* both managers have applied the same two inputs to like nodes, the second
\* update on a state that is not all zero
C6_Witness ==
    \E a \in Owners(1), b \in Owners(2) :
        /\ SameSetup(a, b)
        /\ InputsOf(1, a) = InputsOf(2, b)
        /\ Len(Emitted(1, a)) = 2
        /\ Emitted(1, a)[1].state_data # Zeros(Len(Emitted(1, a)[1].state_data))
        /\ Emitted(1, a)[2].state_data # Emitted(1, a)[1].state_data
        /\ Emitted(1, a)[2].state_id # Emitted(2, b)[2].state_id

\* C7: two owners of two managers with the same sizes and the same applied
\* control inputs have the same current state_data, whatever their ids,
\* types and timestamps.
C7_StateDataIdentical ==
    \A a \in Owners(1), b \in Owners(2) :
        (SameSizes(a, b) /\ InputsOf(1, a) = InputsOf(2, b))
            => Ledger(1).states[a].current_state.state_data
                = Ledger(2).states[b].current_state.state_data

\* as in test_deterministic_behavior (input [0.1]), here with timestamps
\* and node types that differ between the managers
C7_Witness ==
    \E a \in Owners(1), b \in Owners(2) :
        /\ SameSizes(a, b)
        /\ InputsOf(1, a) = InputsOf(2, b)
        /\ InputsOf(1, a) = <<(<<F(Scale \div 10)>>)>>
        /\ Ledger(1).states[a].current_state.timestamp
            # Ledger(2).states[b].current_state.timestamp
        /\ Ledger(1).states[a].node_type # Ledger(2).states[b].node_type

\* C8: no StateManager call removes or changes an entry of the immutable
\* ledger; every entry stays at its position.
C8_LedgerOnlyGrows ==
    [][\A m \in Managers :
        /\ Len(Ledger(m).immutable_ledger') >= Len(Ledger(m).immutable_ledger)
        /\ \A i \in 1..Len(Ledger(m).immutable_ledger) :
            Ledger(m).immutable_ledger'[i] = Ledger(m).immutable_ledger[i]]_vars

IsZeroInput(u) == \A i \in 1..Len(u) : u[i] = F(0)
InImmutableLedger(m, sv) ==
    \E i \in 1..Len(Ledger(m).immutable_ledger) :
        Ledger(m).immutable_ledger[i] = sv

\* C9: once a zero-input update of an owner has converged, that is, is in
\* the immutable ledger, the owner's next update, if it is a zero-input
\* update too, is also in the immutable ledger.
C9_ZeroInputStaysConverged ==
    \A m \in Managers : \A id \in Owners(m) :
        LET e == Emitted(m, id)
        IN \A i \in 1..(Len(e) - 1) :
                (/\ IsZeroInput(e[i].control_input)
                 /\ IsZeroInput(e[i + 1].control_input)
                 /\ InImmutableLedger(m, e[i]))
                => InImmutableLedger(m, e[i + 1])

InClampRange(x) == x.k = "fin" /\ -ClampMax <= x.v /\ x.v <= ClampMax

\* C10: every component of the state_data of every owner's current_state
\* and of every state_history entry lies in [-10, 10].
C10_StateWithinClampRange ==
    \A m \in Managers :
        /\ \A id \in Owners(m) :
            \A i \in 1..Len(Ledger(m).states[id].current_state.state_data) :
                InClampRange(Ledger(m).states[id].current_state.state_data[i])
        /\ \A n \in 1..Len(Ledger(m).state_history) :
            \A i \in 1..Len(Ledger(m).state_history[n].state_data) :
                InClampRange(Ledger(m).state_history[n].state_data[i])

\* C11: a call of update_state or get_node_state with an id that is not
\* registered returns an error and leaves the manager (owner map,
\* state_history, immutable ledger) as it was.
C11_UnknownOwnerIsReportedError ==
    [][\A m \in Managers :
        (/\ IsSome(ret')
         /\ Get(ret').op \in {"update_state", "get_node_state"}
         /\ Get(ret').m = m
         /\ Get(ret').node_id \notin Owners(m))
        => /\ ~Get(ret').r.ok
           /\ mgr' = mgr]_vars

\* update_state has just failed on an unknown id in a manager that holds an
\* owner, history and ledger entries
C11_Witness ==
    /\ IsSome(ret)
    /\ Get(ret).op = "update_state"
    /\ Get(ret).r = Err("Node not found")
    /\ Owners(1) # {}
    /\ Len(Ledger(1).state_history) > 1
    /\ Len(Ledger(1).immutable_ledger) > 0

\* a step that loads, into manager 1, the snapshot of its present ledger
RoundTrip(slip) ==
    /\ IsSome(snap)
    /\ Get(snap) = SerLedger(Ledger(1))
    /\ LoadSnapshot(1, Get(snap), slip)

\* C12: load_snapshot of the snapshot of the present ledger succeeds and
\* leaves a ledger with the same owners and current states, the same
\* state_history and the same immutable ledger.
C12_SnapshotRoundTrip ==
    [][\A slip \in ParseSlips :
        RoundTrip(slip) =>
            /\ Get(ret').r.ok
            /\ DOMAIN Ledger(1).states' = DOMAIN Ledger(1).states
            /\ \A id \in Owners(1) :
                Ledger(1).states'[id].current_state
                    = Ledger(1).states[id].current_state
            /\ Ledger(1).state_history' = Ledger(1).state_history
            /\ Ledger(1).immutable_ledger' = Ledger(1).immutable_ledger]_vars

RECURSIVE Replay(_, _, _)
\* what the update_state calls for `id` with the inputs `us` return, one
\* after the other, on a manager holding `ledger` (ids drawn and clock
\* readings the same on every replay)
Replay(ledger, id, us) ==
    IF us = <<>> THEN <<>>
    ELSE LET res == update_state(ledger, id, Head(us), 0, 0, 0)
         IN <<res.r>> \o Replay(res.ledger, id, Tail(us))

InputSeqs ==
    {<<u>> : u \in ControlInputs}
        \cup {<<u, v>> : u \in ControlInputs, v \in ControlInputs}

\* C13: after load_snapshot of the snapshot of the present ledger, every
\* sequence of update_state calls returns the StateVectors it would have
\* returned had the ledger not been reloaded.
C13_UpdatesAfterRestoreAgree ==
    [][\A slip \in ParseSlips :
        RoundTrip(slip) =>
            \A id \in KnownIds, us \in InputSeqs :
                Replay(Ledger(1)', id, us) = Replay(Ledger(1), id, us)]_vars

\* C14: an id that is registered stays registered, and its NodeState
\* changes only in a step that is update_state on that id.
C14_OwnersStayAndChangeOnlyByUpdate ==
    [][\A id \in Owners(1) :
        /\ id \in DOMAIN Ledger(1).states'
        /\ Ledger(1).states'[id] # Ledger(1).states[id]
            => /\ Get(ret').op = "update_state"
               /\ Get(ret').node_id = id]_vars

\* C27: a successful update_state(id, u), that is a step that draws a
\* state_id and returns Ok from update_state, appends exactly one StateVector
\* to state_history, leaving the earlier entries in place; that vector is
\* the owner's new current_state, has node_id = id and control_input = u,
\* and is the vector returned to the caller.
C27_UpdateAppendsReturnedVector ==
    [][(/\ uuids'[1] # uuids[1]
        /\ Get(ret').op = "update_state"
        /\ Get(ret').m = 1
        /\ Get(ret').r.ok) =>
            LET id == Get(ret').node_id
                u == Get(ret').control_input
                history == Ledger(1).state_history
                sv == Ledger(1).state_history'[Len(history) + 1]
            IN /\ Len(Ledger(1).state_history') = Len(history) + 1
               /\ SubSeq(Ledger(1).state_history', 1, Len(history)) = history
               /\ sv = Ledger(1).states'[id].current_state
               /\ sv.node_id = id
               /\ sv.control_input = u
               /\ Get(ret').r.val = sv]_vars

\* an update with input [0.1] has just returned the vector it appended,
\* which differs from the entry appended before it
C27_Witness ==
    /\ IsSome(ret)
    /\ Get(ret).op = "update_state"
    /\ Get(ret).r.ok
    /\ Len(Ledger(1).state_history) >= 2
    /\ LET n == Len(Ledger(1).state_history)
       IN /\ Get(ret).r.val = Ledger(1).state_history[n]
          /\ Get(ret).r.val.control_input = <<F(Scale \div 10)>>
          /\ Ledger(1).state_history[n].state_data
                # Ledger(1).state_history[n - 1].state_data
          /\ Ledger(1).state_history[n].node_id
                = Ledger(1).state_history[n - 1].node_id

\* every component of `new` is within less than the threshold of `prev`:
\* the largest |new[i] - prev[i]| is strictly below the threshold
DeltaBelowThreshold(prev, new, threshold) ==
    \A i \in 1..Len(new) : FLt(FAbsDiff(new[i], prev[i]), F(threshold))

\* C28: a successful update_state appends the new StateVector to the
\* immutable ledger if the largest |new[i] - previous[i]| is strictly below
\* the owner's convergence threshold, and leaves the immutable ledger
\* unchanged if it is not.
C28_LedgerAppendIffConverged ==
    [][(/\ uuids'[1] # uuids[1]
        /\ Get(ret').op = "update_state"
        /\ Get(ret').m = 1
        /\ Get(ret').r.ok) =>
            LET id == Get(ret').node_id
                prev == Ledger(1).states[id].current_state
                sv == Get(ret').r.val
            IN IF DeltaBelowThreshold(prev.state_data, sv.state_data,
                        Ledger(1).states[id].convergence_threshold)
               THEN Ledger(1).immutable_ledger'
                        = Append(Ledger(1).immutable_ledger, sv)
               ELSE Ledger(1).immutable_ledger'
                        = Ledger(1).immutable_ledger]_vars

\* owner a of manager m1 and owner b of manager m2 were registered with
\* the same (state_size, input_size)
RegisteredAlike(l1, a, l2, b) ==
    /\ l1.states[a].transition_matrix.size
        = l2.states[b].transition_matrix.size
    /\ l1.states[a].control_matrix.state_size
        = l2.states[b].control_matrix.state_size
    /\ l1.states[a].control_matrix.input_size
        = l2.states[b].control_matrix.input_size

\* C29: after every step, any two owners registered with the same
\* (state_size, input_size), in one manager or in two and whatever their
\* node_type and time of registration, have the same transition matrix A
\* and the same control matrix B; and an owner registered by the step has
\* state_data and hidden_state all zero and of length state_size.
C29_MatricesFromSizesOnly ==
    [][/\ \A m1 \in Managers, m2 \in Managers :
            \A a \in DOMAIN Ledger(m1).states', b \in DOMAIN Ledger(m2).states' :
                RegisteredAlike(Ledger(m1)', a, Ledger(m2)', b) =>
                    /\ Ledger(m1).states'[a].transition_matrix
                        = Ledger(m2).states'[b].transition_matrix
                    /\ Ledger(m1).states'[a].control_matrix
                        = Ledger(m2).states'[b].control_matrix
       /\ \A m \in Managers :
            \A id \in (DOMAIN Ledger(m).states') \ Owners(m) :
                LET ns == Ledger(m).states'[id]
                IN /\ ns.current_state.state_data
                        = Zeros(ns.control_matrix.state_size)
                   /\ ns.current_state.hidden_state
                        = Zeros(ns.control_matrix.state_size)]_vars

\* manager 1 holds two owners of different sizes, and manager 2 an owner
\* of the size of one of them, of another node type and registered at
\* another time
C29_Witness ==
    \E a \in Owners(1), c \in Owners(1), b \in Owners(2) :
        /\ RegisteredAlike(Ledger(1), a, Ledger(2), b)
        /\ ~RegisteredAlike(Ledger(1), a, Ledger(1), c)
        /\ Ledger(1).states[a].node_type # Ledger(2).states[b].node_type
        /\ Ledger(1).states[a].last_update # Ledger(2).states[b].last_update
        /\ Ledger(1).states[a].transition_matrix.size = 4

\* C30: a load_snapshot that returns an error leaves the whole ledger
\* (owners, state_history, immutable ledger) as it was, and one that
\* succeeds leaves exactly the ledger read from the snapshot.
C30_FailedLoadLeavesLedger ==
    [][(IsSome(ret') /\ Get(ret').op = "load_snapshot") =>
        IF Get(ret').r.ok
        THEN \E slip \in ParseSlips :
                /\ DeLedger(Get(snap), slip).ok
                /\ Ledger(1)' = DeLedger(Get(snap), slip).val
        ELSE Ledger(1)' = Ledger(1)]_vars

\* a load has just failed, on a manager that holds an owner, history and
\* immutable entries, while the snapshot at hand is one that cannot be
\* read back
C30_Witness ==
    /\ IsSome(ret)
    /\ Get(ret).op = "load_snapshot"
    /\ ~Get(ret).r.ok
    /\ IsSome(snap)
    /\ ~DeLedger(Get(snap), 0).ok
    /\ Owners(1) # {}
    /\ Len(Ledger(1).state_history) > 0
    /\ Len(Ledger(1).immutable_ledger) > 0

\* the step is a call of register_node on manager m
Registers(m) ==
    /\ uuids'[m] # uuids[m]
    /\ IsSome(ret')
    /\ Get(ret').op = "register_node"
    /\ Get(ret').m = m

\* C36: register_node adds exactly one owner, under the id it returns,
\* which was not registered before; every owner registered before is
\* still there with its NodeState unchanged, and state_history and the
\* immutable ledger are unchanged.
C36_RegisterAddsOneOwnerOnly ==
    [][\A m \in Managers :
        Registers(m) =>
            LET node_id == Get(ret').r.val
            IN /\ Get(ret').r.ok
               /\ node_id \notin DOMAIN mgr[m].ledger.states
               /\ DOMAIN mgr'[m].ledger.states
                    = DOMAIN mgr[m].ledger.states \cup {node_id}
               /\ \A id \in DOMAIN mgr[m].ledger.states :
                    mgr'[m].ledger.states[id] = mgr[m].ledger.states[id]
               /\ mgr'[m].ledger.state_history = mgr[m].ledger.state_history
               /\ mgr'[m].ledger.immutable_ledger
                    = mgr[m].ledger.immutable_ledger]_vars

\* a second owner has just been registered next to one whose update is
\* in the history and in the immutable ledger
C36_Witness ==
    /\ IsSome(ret)
    /\ Get(ret).op = "register_node"
    /\ Cardinality(Owners(1)) = 2
    /\ Len(Ledger(1).state_history) > 0
    /\ Len(Ledger(1).immutable_ledger) > 0
    /\ \E id \in Owners(1) : Len(Emitted(1, id)) > 0

\* a[i..] is a subsequence of b[j..]: its entries appear in b, in order
RECURSIVE SubseqFrom(_, _, _, _)
SubseqFrom(a, i, b, j) ==
    IF i > Len(a) THEN TRUE
    ELSE IF j > Len(b) THEN FALSE
    ELSE IF a[i] = b[j] THEN SubseqFrom(a, i + 1, b, j + 1)
    ELSE SubseqFrom(a, i, b, j + 1)

IsSubsequence(a, b) == SubseqFrom(a, 1, b, 1)

\* C38: the immutable ledger is a subsequence of state_history, its entries
\* in the order they have in the history, and an update that appends a
\* vector to the immutable ledger appends the same vector to the history.
C38_LedgerIsSubsequenceOfHistory ==
    /\ [](\A m \in Managers :
            IsSubsequence(Ledger(m).immutable_ledger,
                          Ledger(m).state_history))
    /\ [][\A m \in Managers :
            (/\ uuids'[m] # uuids[m]
             /\ Get(ret').op = "update_state"
             /\ mgr'[m].ledger.immutable_ledger
                    # mgr[m].ledger.immutable_ledger)
            => \E sv \in {Get(ret').r.val} :
                /\ mgr'[m].ledger.immutable_ledger
                    = Append(mgr[m].ledger.immutable_ledger, sv)
                /\ mgr'[m].ledger.state_history
                    = Append(mgr[m].ledger.state_history, sv)]_vars

\* the history holds three vectors of one owner, of which the first and
\* the last, and not the one between them, are in the immutable ledger
C38_Witness ==
    /\ Len(Ledger(1).state_history) = 3
    /\ Len(Ledger(1).immutable_ledger) = 2
    /\ Ledger(1).immutable_ledger[1] = Ledger(1).state_history[1]
    /\ Ledger(1).immutable_ledger[2] = Ledger(1).state_history[3]

----------------------------------------------------------------------------
(* Properties of BarkDirective::new *)

\* Uuid::nil(), which is_nil() tests for
NilUuid == 0

\* the step is a call of BarkDirective::new
Creates == nextId' # nextId /\ orig' = None

\* C37: the directive BarkDirective::new returns has no signature and no
\* governance_vector; its caller_sigil, target_agent, kind and payload are
\* the arguments of the call, whichever member of TargetNode and of
\* DirectiveKind is passed; its request_id is not nil and differs from the
\* request_id of every directive created before it.
C37_NewIsUnsignedAndUnique ==
    [][Creates =>
        LET d == Get(dir')
        IN /\ d.signature = None
           /\ d.governance_vector = None
           /\ d.request_id # NilUuid
           /\ d.request_id \notin 1..nextId
           /\ \A c \in Callers, tg \in BarkTargets, k \in BarkKinds,
                 p \in Payloads, t \in Ticks :
                New(c, tg, k, p, t) =>
                    /\ d.caller_sigil = c
                    /\ d.target_agent = tg
                    /\ d.kind = k
                    /\ d.payload = p
           /\ \A i \in DOMAIN TargetNode, j \in DOMAIN DirectiveKind :
                LET e == BarkDirective_new(d.request_id, d.timestamp,
                            d.caller_sigil, TargetNode[i], DirectiveKind[j],
                            d.payload)
                IN /\ e.target_agent = TargetNode[i]
                   /\ e.kind = DirectiveKind[j]
                   /\ e.caller_sigil = d.caller_sigil
                   /\ e.payload = d.payload
                   /\ e.signature = None
                   /\ e.governance_vector = None
                   /\ e.request_id = d.request_id]_vars

\* a second directive has been created, for the legacy node, after the
\* first one was dropped
C37_Witness ==
    /\ IsSome(dir)
    /\ nextId = 2
    /\ Get(dir).request_id = 2
    /\ Get(dir).target_agent = "LexLeg"
    /\ Get(dir).kind = "EXECUTE_PLAN"
    /\ Get(dir).signature = None
    /\ orig = None

----------------------------------------------------------------------------
(* Properties of the coordinator *)

\* the coordinator has finished a directive it accepted
Routed(o) == o.node = "LexMon" /\ o.verified.ok /\ o.stage = "done"

PayloadText(d) == ToLower(JsonToString(d.payload))
MatchesNoKeyword(d) == \A k \in Keywords : ~Contains(PayloadText(d), k)

\* C15: an ANALYZE directive is routed to a non-empty list of agents, and
\* to the knowledge node alone when its payload holds no keyword.
C15_AnalyzeRoutesSomewhere ==
    IsSome(out) =>
        LET o == Get(out)
        IN (Routed(o) /\ o.d.kind = "ANALYZE") =>
            /\ o.dispatched # <<>>
            /\ MatchesNoKeyword(o.d) => o.dispatched = <<"LexKno">>

\* a payload without any keyword has been routed
C15_Witness ==
    /\ IsSome(out)
    /\ Routed(Get(out))
    /\ Get(out).d.kind = "ANALYZE"
    /\ Get(out).d.payload = JNum(7)
    /\ Get(out).dispatched = <<"LexKno">>

\* C16: an ANALYZE directive whose payload holds a single keyword of the
\* routing table, as a string or as the value of an object, is routed to
\* the agent the table gives for the keyword and to no other.
C16_KeywordRoutesToItsAgent ==
    IsSome(out) =>
        LET o == Get(out)
        IN \A k \in Keywords :
            (/\ Routed(o)
             /\ o.d.kind = "ANALYZE"
             /\ o.d.payload \in {JStr(k), JObj("q", k)})
            => o.dispatched = <<RoutingTable[k]>>

\* the keyword "restoration" has been routed to the leisure node
C16_Witness ==
    /\ IsSome(out)
    /\ Routed(Get(out))
    /\ Get(out).d.payload = JStr("restoration")
    /\ Get(out).dispatched = <<"LexLei">>

Range(f) == {f[i] : i \in DOMAIN f}

\* C17: the agents the coordinator dispatches a directive to include the
\* directive's target_agent, whatever the kind.
C17_ExplicitTargetIsRouted ==
    IsSome(out) =>
        LET o == Get(out)
        IN Routed(o) => o.d.target_agent \in Range(o.dispatched)

\* C18: the responses the coordinator collects for a dispatched directive
\* come from agents of the target list, one response per agent at most.
C18_CollectedFromTargetsOnly ==
    IsSome(out) =>
        LET o == Get(out)
        IN Routed(o) =>
            /\ \A i \in DOMAIN o.collected :
                o.collected[i].source_node \in Range(o.dispatched)
            /\ \A i, j \in DOMAIN o.collected :
                o.collected[i].source_node = o.collected[j].source_node
                    => i = j

\* a collection for request_id `id` is in progress
Collecting(id) ==
    /\ IsSome(out)
    /\ Get(out).stage = "collecting"
    /\ Get(out).d.request_id = id

\* C19: while the collection for a request_id is in progress, no step
\* registers a directive under that request_id: the registry entry is
\* neither replaced nor duplicated.
C19_NoRegistrationDuringCollection ==
    [][\A id \in WireIds :
        Collecting(id) => activeDirectives'[id] = activeDirectives[id]]_vars

\* the collection for request 1 is in progress, registered under its id,
\* while the registry also holds the finished request 2
C19_Witness ==
    /\ Collecting(1)
    /\ activeDirectives[1]
        = Some(DirectiveState(Get(out).d, Len(Get(out).dispatched)))
    /\ IsSome(activeDirectives[2])

\* C20: a synthesis over a list that holds no Success response, the empty
\* list included, is a Failure response.
C20_NoSuccessGivesFailure ==
    IsSome(out) =>
        LET o == Get(out)
        IN (\A i \in DOMAIN o.collected : o.collected[i].status # "Success")
            => o.response.status = "Failure"

----------------------------------------------------------------------------
(* Properties of the synthesizer *)

\* the limits generate_council_decision compares against, in tenths
RunwayHigh == 30
RunwayMedium == 60
BioloadHigh == 850
BioloadMedium == 750

\* a synthesis by the coordinator is at hand
Synthesized(o) ==
    /\ o.node = "LexMon"
    /\ o.stage = "done"
    /\ "key_insights" \in DOMAIN o.response.payload

\* an extracted factor is beyond its HIGH limit
BreachesHigh(key_insights) ==
    \/ /\ "financial_runway" \in DOMAIN key_insights
       /\ key_insights["financial_runway"] < RunwayHigh
    \/ /\ "biological_load" \in DOMAIN key_insights
       /\ key_insights["biological_load"] > BioloadHigh

\* C21: a synthesis in which an extracted factor breaches its HIGH limit
\* (runway below 3.0 months, biological load above 85 %) carries the
\* verdict HOLD and the risk level HIGH.
C21_BreachGivesHoldHigh ==
    IsSome(out) =>
        LET o == Get(out)
        IN (Synthesized(o) /\ BreachesHigh(o.response.payload.key_insights))
            => /\ o.response.payload.decision.verdict = "HOLD"
               /\ o.response.payload.risk_assessment = "HIGH"

\* the factors a Success response carries are all within the MEDIUM limits
CarriesNoBreach(r) ==
    r.status = "Success" =>
        /\ "runway_months" \in DOMAIN r.payload
            => r.payload.runway_months >= RunwayMedium
        /\ "bioload_percentage" \in DOMAIN r.payload
            => r.payload.bioload_percentage <= BioloadMedium

\* C22: a synthesis over responses of which one at least is a Success and
\* none carries a factor beyond its MEDIUM or HIGH limit has the verdict GO
\* and the risk level LOW; a single Success response with a runway of 6.5
\* months is such a list.
C22_NoBreachGivesGoLow ==
    IsSome(out) =>
        LET o == Get(out)
        IN (/\ Synthesized(o)
            /\ \E i \in DOMAIN o.collected : o.collected[i].status = "Success"
            /\ \A i \in DOMAIN o.collected : CarriesNoBreach(o.collected[i]))
           => /\ o.response.payload.decision.verdict = "GO"
              /\ o.response.payload.risk_assessment = "LOW"

\* the reorderings of a list
Reorderings(s) ==
    {[i \in 1..Len(s) |-> s[p[i]]] : p \in Permutations(1..Len(s))}

\* verdict, risk level and extracted factors of a synthesis
Outcome(response) ==
    <<response.payload.decision.verdict, response.payload.risk_assessment,
      response.payload.key_insights>>

\* C23: the synthesis over any reordering of a list of responses has the
\* same verdict, risk level and extracted factors as the synthesis over the
\* list, also when two Success responses come from the same agent.
C23_SynthesisIgnoresOrder ==
    IsSome(out) =>
        LET o == Get(out)
        IN Synthesized(o) =>
            \A p \in Reorderings(o.collected) :
                Outcome(synthesize_analysis_response(1, p))
                    = Outcome(o.response)

\* an extracted factor is beyond its MEDIUM limit
BreachesMedium(key_insights) ==
    \/ /\ "financial_runway" \in DOMAIN key_insights
       /\ key_insights["financial_runway"] < RunwayMedium
    \/ /\ "biological_load" \in DOMAIN key_insights
       /\ key_insights["biological_load"] > BioloadMedium

\* C32: a synthesis in which no extracted factor breaches its HIGH limit
\* and one at least breaches its MEDIUM limit (runway in [3.0, 6.0),
\* biological load above 75 % and at most 85 %) carries the risk level
\* MEDIUM and a verdict other than HOLD.
C32_MediumBreachGivesMediumRisk ==
    IsSome(out) =>
        LET o == Get(out)
        IN (/\ Synthesized(o)
            /\ ~BreachesHigh(o.response.payload.key_insights)
            /\ BreachesMedium(o.response.payload.key_insights))
           => /\ o.response.payload.risk_assessment = "MEDIUM"
              /\ o.response.payload.decision.verdict # "HOLD"

\* a Success response of the list supplies the factor: response i comes
\* from `source` and its payload has the field
Supplies(responses, source, field) ==
    \E i \in DOMAIN responses :
        /\ responses[i].status = "Success"
        /\ responses[i].source_node = source
        /\ field \in DOMAIN responses[i].payload

\* C39: in the analysis synthesis the verdict is HOLD whenever no Success
\* response of LexWth supplies runway_months or no Success response of
\* LexVit supplies bioload_percentage, so that a GO verdict, and
\* action_required with it, is only given when both factors are supplied;
\* a factor that is not supplied is absent from key_insights.
C39_MissingFactorGivesHold ==
    IsSome(out) =>
        LET o == Get(out)
            wth == Supplies(o.collected, "LexWth", "runway_months")
            vit == Supplies(o.collected, "LexVit", "bioload_percentage")
            ki == o.response.payload.key_insights
        IN Synthesized(o) =>
            /\ ("financial_runway" \in DOMAIN ki) = wth
            /\ ("biological_load" \in DOMAIN ki) = vit
            /\ ~(wth /\ vit) =>
                    /\ o.response.payload.decision.verdict = "HOLD"
                    /\ ~o.response.payload.decision.action_required
            /\ o.response.payload.decision.verdict = "GO" => (wth /\ vit)

\* a runway of 6.5 months has been supplied and no biological load, and
\* the verdict is HOLD
C39_Witness ==
    /\ IsSome(out)
    /\ Synthesized(Get(out))
    /\ Get(out).response.payload.key_insights
        = [financial_runway |-> 65]
    /\ Get(out).response.payload.decision.verdict = "HOLD"

----------------------------------------------------------------------------
(* Properties of the responses and of the coordinator loop *)

\* C24: every Response a finished handler has produced for a directive,
\* its own and those of its collection step, carries the directive's
\* request_id, and names as source_node the component that produced it:
\* the handler's node for its own response, and for a collected response
\* the coordinator that built it or an agent the directive was sent to.
C24_ResponsesNameRequestAndProducer ==
    IsSome(out) =>
        LET o == Get(out)
        IN ("d" \in DOMAIN o /\ o.stage = "done") =>
            /\ o.response.request_id = o.d.request_id
            /\ o.response.source_node = o.node
            /\ \A i \in DOMAIN o.collected :
                /\ o.collected[i].request_id = o.d.request_id
                /\ o.collected[i].source_node
                    \in {o.node} \cup Range(o.dispatched)

\* the loop is at read_line with nothing pending
Awaiting == inbox = None /\ out = None

\* the handler has returned its Response for directive d
Answered(d) ==
    /\ IsSome(out)
    /\ Get(out).stage = "done"
    /\ Get(out).d = d
    /\ Get(out).response.request_id = d.request_id
    /\ Get(out).response.status \in {"Success", "Failure"}

\* C25: every directive the coordinator reads is eventually answered: the
\* handler that starts is the one for the directive read, it stays with
\* that directive, and it eventually returns a Success or Failure Response
\* carrying the directive's request_id.  Once the Response is there the
\* next thing the loop does is go back to awaiting directives (no second
\* Response for the directive), and it eventually does so, whatever the
\* directive was: unverifiable, of a kind without a route of its own, or
\* routed to agents that never answer.
C25_EveryDirectiveAnsweredOnce ==
    /\ IsSome(inbox) ~> (IsSome(out) /\ Get(out).stage = "done")
    /\ (IsSome(out) /\ Get(out).stage = "done") ~> Awaiting
    /\ [][/\ IsSome(inbox) => (IsSome(out') /\ Get(out').d = Get(inbox))
          /\ (IsSome(out) /\ IsSome(out')) => Get(out').d = Get(out).d
          /\ (IsSome(out) /\ Get(out).stage = "done") => Awaiting'
          /\ (IsSome(out') /\ Get(out').stage = "done")
                => /\ Get(out').response.request_id
                        = Get(out').d.request_id
                   /\ Get(out').response.status
                        \in {"Success", "Failure"}]_vars

\* the loop has gone round: request 1 was routed and answered, and request
\* 2, whose signature is not decodable, has been answered with a Failure
C25_Witness ==
    /\ IsSome(activeDirectives[1])
    /\ IsSome(out)
    /\ Get(out).d.request_id = 2
    /\ Get(out).d.signature = Some("zz")
    /\ Answered(Get(out).d)
    /\ Get(out).response.status = "Failure"

\* the collection of the coordinator's handler has returned
Collected(o) == o.node = "LexMon" /\ o.stage = "done" /\ o.dispatched # <<>>

Handles(node, kind) == node = "LexMon" \/ kind \in HandledKinds(node)

\* the directive types process_kinship_directive has an arm for
KinHandledTypes ==
    {"BUILD_TRUST", "STRENGTHEN_BONDS", "FACILITATE_COLLABORATION",
     "EMPATHY_BOOST"}

\* C33: a handler that has been given a directive of a kind it does not
\* handle returns a Failure response to its caller, carrying the request_id
\* of the directive and naming the component as source, without an error
\* and without having dispatched or registered anything.  This holds for
\* the handlers of the BARK directives (agents and coordinator) and for the
\* handler of a self-updating node, whose response has no request_id to
\* carry.
C33_UnhandledKindGivesFailure ==
    /\ IsSome(out) =>
        LET o == Get(out)
        IN ("d" \in DOMAIN o /\ o.stage = "done"
                /\ ~Handles(o.node, o.d.kind))
            => /\ o.response.status = "Failure"
               /\ o.response.request_id = o.d.request_id
               /\ o.response.source_node = o.node
               /\ o.dispatched = <<>>
               /\ ~o.registered
    /\ IsSome(kinOut) =>
        LET o == Get(kinOut)
        IN o.directive_type \notin KinHandledTypes
            => /\ IsSome(o.response)
               /\ Get(o.response).status = "Failure"
               /\ Get(o.response).source_node = "LexKin"

----------------------------------------------------------------------------
(* Properties of the tasks sharing a node's state *)

\* task t is inside update_state for owner id: it has read the owner's
\* previous state and not yet written the new one
Updating(t, id) ==
    /\ taskPc[t] = "updating"
    /\ Get(taskLocal[t]).node_id = id

\* C26: while a task is between update_state's read of an owner's previous
\* state and its writes of the new one, no other task takes a step of
\* update_state for that owner, neither the read nor the writes.
C26_NoConcurrentUpdateOfOwner ==
    [][\A t \in Tasks : \A t2 \in Tasks \ {t} : \A id \in Owners(1) :
        Updating(t, id) =>
            ~ \/ /\ taskPc[t2] = "locked"
                 /\ taskPc'[t2] = "updating"
                 /\ Get(taskLocal'[t2]).node_id = id
              \/ /\ Updating(t2, id)
                 /\ taskPc'[t2] = "updated"]_vars

\* the periodic task is inside update_state, on a state that earlier
\* updates have changed, while the other caller waits for the guard
C26_Witness ==
    \E id \in Owners(1) :
        /\ Updating(1, id)
        /\ taskPc[2] = "waiting"
        /\ stateLock = 1
        /\ Len(Emitted(1, id)) > 0

\* task t holds the guard it took to work on the entry of owner id
HoldsFor(t, id) ==
    /\ stateLock = t
    /\ IsSome(taskLocal[t])
    /\ Get(taskLocal[t]).node_id = id

\* task t has asked for access to the entry of owner id and has to wait
BlockedOn(t, id) ==
    /\ taskPc[t] = "waiting"
    /\ stateLock # 0
    /\ Get(taskLocal[t]).node_id = id

\* C34: a task that wants the entry of one owner never has to wait because
\* another task holds the entry of a different owner.
C34_OtherEntryNeverBlocks ==
    \A t \in Tasks : \A t2 \in Tasks \ {t} :
        \A a \in Owners(1) : \A b \in Owners(1) \ {a} :
            ~(HoldsFor(t, a) /\ BlockedOn(t2, b))

\* the coordinator's handler for request_id `id` has not returned its
\* response yet
InHand(id) ==
    /\ IsSome(out)
    /\ Get(out).node = "LexMon"
    /\ Get(out).d.request_id = id

\* C35: the active-directive registry holds only directives the
\* coordinator is still working on: once the response for a directive has
\* been returned, the registry has no entry under its request_id.
C35_RegistryHoldsOnlyDirectivesInHand ==
    \A id \in WireIds : IsSome(activeDirectives[id]) => InHand(id)

----------------------------------------------------------------------------
(* Properties of the self-updating node *)

\* the spawned task is not inside process_state_update and holds no guard
UpdaterReleased ==
    /\ kinPc[1] = "tick"
    /\ stateLock # 1
    /\ 1 \notin metricsLock.readers

\* main is not inside process_kinship_directive and holds no guard
HandlerReleased ==
    /\ kinPc[2] = "sleep"
    /\ metricsLock.writer # 2
    /\ 2 \notin protocolLock.readers

\* C40: the state-update task (write guard of the state, then read guard
\* of the metrics) and the directive handler (write guard of the metrics,
\* then read guard of the protocol) never block each other for good:
\* whenever one of them has started, it gets its guards, finishes and has
\* dropped them all; a task that is not running holds no guard.
C40_NodeTasksNeverDeadlock ==
    /\ (kinPc[1] = "want_state") ~> UpdaterReleased
    /\ (kinPc[2] = "want_metrics") ~> HandlerReleased
    /\ [](kinPc[1] = "tick" => UpdaterReleased)
    /\ [](kinPc[2] = "sleep" => HandlerReleased)

\* the update task holds the state and waits for the metrics, which the
\* handler holds for writing while it waits for the protocol
C40_Witness ==
    /\ kinPc[1] = "want_read"
    /\ stateLock = 1
    /\ kinPc[2] = "want_protocol"
    /\ metricsLock.writer = 2
    /\ IsSome(kinState)

====
